---- MODULE Spec2Model ----
(***************************************************************************)
(* Query-processing pipeline of the NVIDIA Doc Navigator backend:          *)
(* input/output guardrails, query router, in-memory result cache and the   *)
(* RAG agent that sequences them (src/backend/app).                        *)
(*                                                                         *)
(* Text is modelled as a sequence of characters, one TLA+ string per       *)
(* character ("U+26A0" names a non-ASCII code point), so that Python's     *)
(* substring test, lower() and string concatenation are computed, not      *)
(* assumed.                                                                *)
(***************************************************************************)
EXTENDS Integers, Sequences, FiniteSets, TLC

----------------------------------------------------------------------------
(* Text primitives (Python str).                                           *)

\* Python's None, kept comparable with texts.
None == <<"<None>">>

\* The lower-case letter of each upper-case letter
LowerCase ==
    [A |-> "a", B |-> "b", C |-> "c", D |-> "d", E |-> "e", F |-> "f", G |-> "g",
     H |-> "h", I |-> "i", J |-> "j", K |-> "k", L |-> "l", M |-> "m", N |-> "n",
     O |-> "o", P |-> "p", Q |-> "q", R |-> "r", S |-> "s", T |-> "t", U |-> "u",
     V |-> "v", W |-> "w", X |-> "x", Y |-> "y", Z |-> "z"]

\* str.lower(); the concatenation makes the result a tuple
lower(s) ==
    [i \in 1..Len(s) |-> IF s[i] \in DOMAIN LowerCase THEN LowerCase[s[i]] ELSE s[i]] \o << >>

\* Python's `sub in s` on strings.
Contains(sub, s) ==
    \E i \in 0..(Len(s) - Len(sub)) : \A j \in 1..Len(sub) : s[i + j] = sub[j]

\* any(p in s for p in patterns)
ContainsAny(patterns, s) ==
    \E i \in 1..Len(patterns) : Contains(patterns[i], s)

\* s.startswith(p)
StartsWith(s, p) == Len(p) <= Len(s) /\ \A j \in 1..Len(p) : s[j] = p[j]

\* str.strip() leaves nothing: the text is empty or all whitespace
IsBlank(s) == \A i \in 1..Len(s) : s[i] \in {" ", "\t", "\n"}

RECURSIVE Join(_)
\* "".join(parts)
Join(parts) == IF parts = << >> THEN << >> ELSE Head(parts) \o Join(Tail(parts))

----------------------------------------------------------------------------
(* GuardrailsService (services/guardrails.py).                             *)

\* guardrails.py line 26
ALLOWED_TOPICS ==
    <<
      <<"c","u","d","a">>,  \* 'cuda'
      <<"g","p","u">>,  \* 'gpu'
      <<"n","v","i","d","i","a">>,  \* 'nvidia'
      <<"t","e","n","s","o","r","r","t">>,  \* 'tensorrt'
      <<"m","i","g">>,  \* 'mig'
      <<"n","v","l","i","n","k">>,  \* 'nvlink'
      <<"t","r","i","t","o","n">>,  \* 'triton'
      <<"n","e","m","o">>,  \* 'nemo'
      <<"r","a","p","i","d","s">>,  \* 'rapids'
      <<"r","i","v","a">>,  \* 'riva'
      <<"d","e","e","p","s","t","r","e","a","m">>,  \* 'deepstream'
      <<"j","e","t","s","o","n">>,  \* 'jetson'
      <<"d","g","x">>,  \* 'dgx'
      <<"h","p","c">>,  \* 'hpc'
      <<"m","a","c","h","i","n","e"," ","l","e","a","r","n","i","n","g">>,  \* 'machine learning'
      <<"d","e","e","p"," ","l","e","a","r","n","i","n","g">>,  \* 'deep learning'
      <<"i","n","f","e","r","e","n","c","e">>,  \* 'inference'
      <<"t","r","a","i","n","i","n","g">>,  \* 'training'
      <<"d","r","i","v","e","r">>,  \* 'driver'
      <<"t","o","o","l","k","i","t">>,  \* 'toolkit'
      <<"s","d","k">>,  \* 'sdk'
      <<"a","p","i">>,  \* 'api'
      <<"d","o","c","u","m","e","n","t","a","t","i","o","n">>,  \* 'documentation'
      <<"p","r","o","g","r","a","m","m","i","n","g">>  \* 'programming'
    >>

\* guardrails.py line 34
BLOCKED_PATTERNS ==
    <<
      <<"i","g","n","o","r","e"," ","y","o","u","r"," ","i","n","s","t","r","u","c","t","i","o","n",
          "s">>,  \* 'ignore your instructions'
      <<"p","r","e","t","e","n","d"," ","y","o","u"," ","a","r","e">>,  \* 'pretend you are'
      <<"f","o","r","g","e","t"," ","y","o","u","r"," ","g","u","i","d","e","l","i","n","e","s">>,  \* 'forget your guidelines'
      <<"i","n","t","e","r","n","a","l"," ","n","v","i","d","i","a">>,  \* 'internal nvidia'
      <<"u","n","r","e","l","e","a","s","e","d"," ","p","r","o","d","u","c","t">>,  \* 'unreleased product'
      <<"c","o","n","f","i","d","e","n","t","i","a","l">>,  \* 'confidential'
      <<"s","e","c","r","e","t">>,  \* 'secret'
      <<"b","y","p","a","s","s">>,  \* 'bypass'
      <<"i","g","n","o","r","e"," ","p","r","e","v","i","o","u","s">>  \* 'ignore previous'
    >>

\* guardrails.py line 97
general_terms ==
    <<
      <<"h","o","w">>,  \* 'how'
      <<"w","h","a","t">>,  \* 'what'
      <<"w","h","y">>,  \* 'why'
      <<"c","o","n","f","i","g","u","r","e">>,  \* 'configure'
      <<"s","e","t","u","p">>,  \* 'setup'
      <<"i","n","s","t","a","l","l">>,  \* 'install'
      <<"e","r","r","o","r">>,  \* 'error'
      <<"h","e","l","p">>,  \* 'help'
      <<"g","u","i","d","e">>  \* 'guide'
    >>

\* guardrails.py line 123
hallucination_patterns ==
    <<
      <<"u","p","c","o","m","i","n","g"," ","n","v","i","d","i","a">>,  \* 'upcoming nvidia'
      <<"w","i","l","l"," ","b","e"," ","r","e","l","e","a","s","e","d">>,  \* 'will be released'
      <<"f","u","t","u","r","e"," ","v","e","r","s","i","o","n">>,  \* 'future version'
      <<"r","u","m","o","r","e","d">>,  \* 'rumored'
      <<"l","e","a","k","e","d">>,  \* 'leaked'
      <<"u","n","a","n","n","o","u","n","c","e","d">>  \* 'unannounced'
    >>

\* 'I can only provide information from official, public NVIDIA documentation. I cannot bypas
\* s my guidelines or share internal/unreleased information. How can I help you with official
\*  NVIDIA technologies like CUDA, TensorRT, or MIG?'
JailbreakMessage ==
    <<"I"," ","c","a","n"," ","o","n","l","y"," ","p","r","o","v","i","d","e"," ","i","n","f","o",
    "r","m","a","t","i","o","n"," ","f","r","o","m"," ","o","f","f","i","c","i","a","l",","," ",
    "p","u","b","l","i","c"," ","N","V","I","D","I","A"," ","d","o","c","u","m","e","n","t","a",
    "t","i","o","n","."," ","I"," ","c","a","n","n","o","t"," ","b","y","p","a","s","s"," ","m",
    "y"," ","g","u","i","d","e","l","i","n","e","s"," ","o","r"," ","s","h","a","r","e"," ","i",
    "n","t","e","r","n","a","l","/","u","n","r","e","l","e","a","s","e","d"," ","i","n","f","o",
    "r","m","a","t","i","o","n","."," ","H","o","w"," ","c","a","n"," ","I"," ","h","e","l","p",
    " ","y","o","u"," ","w","i","t","h"," ","o","f","f","i","c","i","a","l"," ","N","V","I","D",
    "I","A"," ","t","e","c","h","n","o","l","o","g","i","e","s"," ","l","i","k","e"," ","C","U",
    "D","A",","," ","T","e","n","s","o","r","R","T",","," ","o","r"," ","M","I","G","?">>

\* "I'm the NVIDIA Doc Navigator, specialized in NVIDIA technologies including:\n\n? **CUDA**
\*  - GPU programming and optimization\n? **TensorRT** - Deep learning inference optimization
\* \n? **MIG** - Multi-Instance GPU configuration\n? **NVLink** - Multi-GPU interconnect\n? *
\* *Triton** - Inference server deployment\n? **NeMo** - NLP and speech AI framework\n\nHow c
\* an I help you with NVIDIA technologies today?"
OffTopicMessage ==
    <<"I","'","m"," ","t","h","e"," ","N","V","I","D","I","A"," ","D","o","c"," ","N","a","v","i",
    "g","a","t","o","r",","," ","s","p","e","c","i","a","l","i","z","e","d"," ","i","n"," ","N",
    "V","I","D","I","A"," ","t","e","c","h","n","o","l","o","g","i","e","s"," ","i","n","c","l",
    "u","d","i","n","g",":","\n","\n","U+2022"," ","*","*","C","U","D","A","*","*"," ","-"," ",
    "G","P","U"," ","p","r","o","g","r","a","m","m","i","n","g"," ","a","n","d"," ","o","p","t",
    "i","m","i","z","a","t","i","o","n","\n","U+2022"," ","*","*","T","e","n","s","o","r","R",
    "T","*","*"," ","-"," ","D","e","e","p"," ","l","e","a","r","n","i","n","g"," ","i","n","f",
    "e","r","e","n","c","e"," ","o","p","t","i","m","i","z","a","t","i","o","n","\n","U+2022",
    " ","*","*","M","I","G","*","*"," ","-"," ","M","u","l","t","i","-","I","n","s","t","a","n",
    "c","e"," ","G","P","U"," ","c","o","n","f","i","g","u","r","a","t","i","o","n","\n",
    "U+2022"," ","*","*","N","V","L","i","n","k","*","*"," ","-"," ","M","u","l","t","i","-",
    "G","P","U"," ","i","n","t","e","r","c","o","n","n","e","c","t","\n","U+2022"," ","*","*",
    "T","r","i","t","o","n","*","*"," ","-"," ","I","n","f","e","r","e","n","c","e"," ","s","e",
    "r","v","e","r"," ","d","e","p","l","o","y","m","e","n","t","\n","U+2022"," ","*","*","N",
    "e","M","o","*","*"," ","-"," ","N","L","P"," ","a","n","d"," ","s","p","e","e","c","h"," ",
    "A","I"," ","f","r","a","m","e","w","o","r","k","\n","\n","H","o","w"," ","c","a","n"," ",
    "I"," ","h","e","l","p"," ","y","o","u"," ","w","i","t","h"," ","N","V","I","D","I","A"," ",
    "t","e","c","h","n","o","l","o","g","i","e","s"," ","t","o","d","a","y","?">>

\* '\n\n?? *Note: Please verify this information with the latest official NVIDIA documentatio
\* n at docs.nvidia.com*'
disclaimer ==
    <<"\n","\n","U+26A0","U+FE0F"," ","*","N","o","t","e",":"," ","P","l","e","a","s","e"," ","v",
    "e","r","i","f","y"," ","t","h","i","s"," ","i","n","f","o","r","m","a","t","i","o","n"," ",
    "w","i","t","h"," ","t","h","e"," ","l","a","t","e","s","t"," ","o","f","f","i","c","i","a",
    "l"," ","N","V","I","D","I","A"," ","d","o","c","u","m","e","n","t","a","t","i","o","n"," ",
    "a","t"," ","d","o","c","s",".","n","v","i","d","i","a",".","c","o","m","*">>

\* '\n\n? *For more details, visit the official documentation at [docs.nvidia.com](https://do
\* cs.nvidia.com)*'
reference ==
    <<"\n","\n","U+1F4DA"," ","*","F","o","r"," ","m","o","r","e"," ","d","e","t","a","i","l","s",
    ","," ","v","i","s","i","t"," ","t","h","e"," ","o","f","f","i","c","i","a","l"," ","d","o",
    "c","u","m","e","n","t","a","t","i","o","n"," ","a","t"," ","[","d","o","c","s",".","n","v",
    "i","d","i","a",".","c","o","m","]","(","h","t","t","p","s",":","/","/","d","o","c","s",".",
    "n","v","i","d","i","a",".","c","o","m",")","*">>

\* 'docs.nvidia.com'
DocsDomain ==
    <<"d","o","c","s",".","n","v","i","d","i","a",".","c","o","m">>

\* 'github.com/nvidia'
GithubDomain ==
    <<"g","i","t","h","u","b",".","c","o","m","/","n","v","i","d","i","a">>

\* GuardrailsService._get_rejection_message
_get_rejection_message(reason) ==
    IF reason = "jailbreak" THEN JailbreakMessage ELSE OffTopicMessage

\* A variant of check_input that tests the topic before the blocked patterns.
check_input_topic_first(gr_enabled, user_input) ==
    LET user_input_lower == lower(user_input)
    IN  IF ~gr_enabled
        THEN [is_allowed |-> TRUE, msg |-> None]
        ELSE IF ContainsAny(ALLOWED_TOPICS, user_input_lower)
        THEN [is_allowed |-> TRUE, msg |-> None]
        ELSE IF ContainsAny(BLOCKED_PATTERNS, user_input_lower)
        THEN [is_allowed |-> FALSE, msg |-> _get_rejection_message("jailbreak")]
        ELSE IF ~ContainsAny(general_terms, user_input_lower)
        THEN [is_allowed |-> FALSE, msg |-> _get_rejection_message("off_topic")]
        ELSE [is_allowed |-> TRUE, msg |-> None]

\* A variant of check_input that does not look for the general terms.
check_input_without_general_terms(gr_enabled, user_input) ==
    LET user_input_lower == lower(user_input)
    IN  IF ~gr_enabled
        THEN [is_allowed |-> TRUE, msg |-> None]
        ELSE IF ContainsAny(BLOCKED_PATTERNS, user_input_lower)
        THEN [is_allowed |-> FALSE, msg |-> _get_rejection_message("jailbreak")]
        ELSE IF ~ContainsAny(ALLOWED_TOPICS, user_input_lower)
        THEN [is_allowed |-> FALSE, msg |-> _get_rejection_message("off_topic")]
        ELSE [is_allowed |-> TRUE, msg |-> None]

\* GuardrailsService.check_input: (is_allowed, rejection_message)
check_input(gr_enabled, user_input) ==
    LET user_input_lower == lower(user_input)
        is_on_topic == ContainsAny(ALLOWED_TOPICS, user_input_lower)
        has_general_term == ContainsAny(general_terms, user_input_lower)
    IN  IF ~gr_enabled
        THEN [is_allowed |-> TRUE, msg |-> None]
        ELSE IF ContainsAny(BLOCKED_PATTERNS, user_input_lower)
        THEN [is_allowed |-> FALSE, msg |-> _get_rejection_message("jailbreak")]
        ELSE IF ~is_on_topic /\ ~has_general_term
        THEN [is_allowed |-> FALSE, msg |-> _get_rejection_message("off_topic")]
        ELSE [is_allowed |-> TRUE, msg |-> None]

\* A variant of _add_uncertainty_disclaimer that returns the disclaimer in
\* place of the response.
_add_uncertainty_disclaimer_replacing(response) == disclaimer

\* GuardrailsService._add_uncertainty_disclaimer
_add_uncertainty_disclaimer(response) == response \o disclaimer

\* GuardrailsService._add_documentation_reference
_add_documentation_reference(response) == response \o reference

\* GuardrailsService.check_output: (is_valid, modified_response).  The
\* hallucination scan and the github test read response_lower, the lower-cased
\* ORIGINAL response; the docs.nvidia.com test reads the response as modified
\* so far.
check_output(gr_enabled, response) ==
    LET response_lower == lower(response)
        r1 == IF ContainsAny(hallucination_patterns, response_lower)
              THEN _add_uncertainty_disclaimer(response)
              ELSE response
        r2 == IF ~Contains(DocsDomain, r1) /\ ~Contains(GithubDomain, response_lower)
              THEN _add_documentation_reference(r1)
              ELSE r1
    IN  IF ~gr_enabled
        THEN [is_valid |-> TRUE, response |-> response]
        ELSE [is_valid |-> TRUE, response |-> r2]

----------------------------------------------------------------------------
(* QueryRouter (services/query_router.py).  A QueryType is written as its  *)
(* enum value.                                                             *)

GENERIC == "generic"

\* The keys of routing_patterns in declaration (dict iteration) order.
RoutingOrder ==
    <<"mig_config", "nvlink", "tensorrt", "nemo", "triton", "cuda_profiling", "cuda_general">>

\* QueryRouter.routing_patterns
routing_patterns(query_type) ==
    CASE query_type = "mig_config" -> <<
        <<"m","i","g">>,  \* 'mig'
        <<"m","u","l","t","i","-","i","n","s","t","a","n","c","e">>,  \* 'multi-instance'
        <<"g","p","u"," ","p","a","r","t","i","t","i","o","n","i","n","g">>,  \* 'gpu partitioning'
        <<"m","i","g"," ","m","o","d","e">>,  \* 'mig mode'
        <<"g","p","u"," ","i","n","s","t","a","n","c","e">>,  \* 'gpu instance'
        <<"c","o","m","p","u","t","e"," ","i","n","s","t","a","n","c","e">>  \* 'compute instance'
        >>
      [] query_type = "nvlink" -> <<
          <<"n","v","l","i","n","k">>,  \* 'nvlink'
          <<"n","v","-","l","i","n","k">>,  \* 'nv-link'
          <<"g","p","u"," ","i","n","t","e","r","c","o","n","n","e","c","t">>,  \* 'gpu interconnect'
          <<"p","e","e","r","-","t","o","-","p","e","e","r">>,  \* 'peer-to-peer'
          <<"p","2","p">>,  \* 'p2p'
          <<"g","p","u"," ","c","o","m","m","u","n","i","c","a","t","i","o","n">>  \* 'gpu communication'
          >>
      [] query_type = "tensorrt" -> <<
          <<"t","e","n","s","o","r","r","t">>,  \* 'tensorrt'
          <<"t","r","t">>,  \* 'trt'
          <<"i","n","f","e","r","e","n","c","e"," ","o","p","t","i","m","i","z","a","t","i","o","n">>,  \* 'inference optimization'
          <<"f","p","1","6">>,  \* 'fp16'
          <<"i","n","t","8">>,  \* 'int8'
          <<"i","n","f","e","r","e","n","c","e"," ","e","n","g","i","n","e">>,  \* 'inference engine'
          <<"o","n","n","x">>  \* 'onnx'
          >>
      [] query_type = "nemo" -> <<
          <<"n","e","m","o">>,  \* 'nemo'
          <<"l","l","m">>,  \* 'llm'
          <<"l","a","n","g","u","a","g","e"," ","m","o","d","e","l">>,  \* 'language model'
          <<"a","s","r">>,  \* 'asr'
          <<"s","p","e","e","c","h"," ","r","e","c","o","g","n","i","t","i","o","n">>,  \* 'speech recognition'
          <<"c","o","n","v","e","r","s","a","t","i","o","n","a","l"," ","a","i">>  \* 'conversational ai'
          >>
      [] query_type = "triton" -> <<
          <<"t","r","i","t","o","n">>,  \* 'triton'
          <<"i","n","f","e","r","e","n","c","e"," ","s","e","r","v","e","r">>,  \* 'inference server'
          <<"m","o","d","e","l"," ","s","e","r","v","i","n","g">>,  \* 'model serving'
          <<"d","e","p","l","o","y","m","e","n","t">>,  \* 'deployment'
          <<"t","r","i","t","o","n"," ","s","e","r","v","e","r">>  \* 'triton server'
          >>
      [] query_type = "cuda_profiling" -> <<
          <<"n","s","i","g","h","t">>,  \* 'nsight'
          <<"p","r","o","f","i","l","i","n","g">>,  \* 'profiling'
          <<"p","r","o","f","i","l","e","r">>,  \* 'profiler'
          <<"p","e","r","f","o","r","m","a","n","c","e"," ","a","n","a","l","y","s","i","s">>,  \* 'performance analysis'
          <<"k","e","r","n","e","l"," ","s","l","o","w">>,  \* 'kernel slow'
          <<"o","p","t","i","m","i","z","a","t","i","o","n">>,  \* 'optimization'
          <<"b","o","t","t","l","e","n","e","c","k">>  \* 'bottleneck'
          >>
      [] query_type = "cuda_general" -> <<
          <<"c","u","d","a">>,  \* 'cuda'
          <<"k","e","r","n","e","l">>,  \* 'kernel'
          <<"t","h","r","e","a","d">>,  \* 'thread'
          <<"b","l","o","c","k">>,  \* 'block'
          <<"g","r","i","d">>,  \* 'grid'
          <<"d","e","v","i","c","e">>,  \* 'device'
          <<"h","o","s","t">>,  \* 'host'
          <<"m","e","m","o","r","y">>,  \* 'memory'
          <<"s","h","a","r","e","d"," ","m","e","m","o","r","y">>,  \* 'shared memory'
          <<"g","l","o","b","a","l"," ","m","e","m","o","r","y">>  \* 'global memory'
          >>

\* QueryRouter._get_tags_for_type
_get_tags_for_type(query_type) ==
    CASE query_type = "mig_config" -> <<"mig", "configuration", "multi-instance">>
      [] query_type = "nvlink" -> <<"nvlink", "interconnect", "p2p">>
      [] query_type = "tensorrt" -> <<"tensorrt", "inference", "optimization">>
      [] query_type = "nemo" -> <<"nemo", "llm", "ai">>
      [] query_type = "triton" -> <<"triton", "inference-server", "deployment">>
      [] query_type = "cuda_profiling" -> <<"cuda", "profiling", "performance">>
      [] query_type = "cuda_general" -> <<"cuda", "programming", "gpu">>
      [] query_type = "generic" -> <<"nvidia", "general">>
      [] OTHER -> <<"nvidia">>

\* A variant of Matches that lists the keywords found last first.
Matches_last_first(query_type, query_lower) ==
    LET found == SelectSeq(routing_patterns(query_type),
                           LAMBDA keyword : Contains(keyword, query_lower))
    IN  [i \in 1..Len(found) |-> found[Len(found) + 1 - i]]

\* The keywords of one query type found in the lower-cased query, in
\* declaration order (the inner loop of route_query).
Matches(query_type, query_lower) ==
    SelectSeq(routing_patterns(query_type), LAMBDA keyword : Contains(keyword, query_lower))

\* scores: the query types with score > 0, in insertion order.
Scored(query_lower) ==
    SelectSeq(RoutingOrder, LAMBDA qt : Len(Matches(qt, query_lower)) > 0)

\* A variant of BestMatch in which the last of the items with the largest
\* score wins.
BestMatch_last_wins(query_lower) ==
    LET scored == Scored(query_lower)
        score(i) == Len(Matches(scored[i], query_lower))
        best == CHOOSE i \in 1..Len(scored) :
                    /\ \A j \in 1..Len(scored) : score(j) <= score(i)
                    /\ \A j \in (i + 1)..Len(scored) : score(j) < score(i)
    IN  scored[best]

\* max(scores.items(), key=lambda x: x[1]): the first item with the largest
\* score.
BestMatch(query_lower) ==
    LET scored == Scored(query_lower)
        score(i) == Len(Matches(scored[i], query_lower))
        best == CHOOSE i \in 1..Len(scored) :
                    /\ \A j \in 1..Len(scored) : score(j) <= score(i)
                    /\ \A j \in 1..(i - 1) : score(j) < score(i)
    IN  scored[best]

\* A variant of Confidence that gives the raw score.
Confidence_of_raw_score(score, max_possible_score) == [num |-> score, den |-> 1]

\* min(score / max_possible_score, 1.0) as the fraction num/den.
Confidence(score, max_possible_score) ==
    IF score >= max_possible_score
    THEN [num |-> 1, den |-> 1]
    ELSE [num |-> score, den |-> max_possible_score]

\* A variant of route_query that gives the first query type, with
\* confidence 0, to a query that matches nothing.
route_query_defaulting(query) ==
    LET query_lower == lower(query)
    IN  IF Scored(query_lower) = << >>
        THEN [query_type |-> RoutingOrder[1],
              confidence |-> [num |-> 0, den |-> 1],
              matched_keywords |-> << >>,
              suggested_tags |-> _get_tags_for_type(RoutingOrder[1])]
        ELSE LET query_type == BestMatch(query_lower)
                 score == Len(Matches(query_type, query_lower))
             IN  [query_type |-> query_type,
                  confidence |-> Confidence(score, Len(routing_patterns(query_type))),
                  matched_keywords |-> Matches(query_type, query_lower),
                  suggested_tags |-> _get_tags_for_type(query_type)]

\* A variant of route_query whose matched_keywords lists the keywords found
\* of every query type.
route_query_listing_all_matches(query) ==
    LET query_lower == lower(query)
    IN  IF Scored(query_lower) = << >>
        THEN [query_type |-> GENERIC,
              confidence |-> [num |-> 0, den |-> 1],
              matched_keywords |-> << >>,
              suggested_tags |-> <<"general", "nvidia">>]
        ELSE LET query_type == BestMatch(query_lower)
                 score == Len(Matches(query_type, query_lower))
             IN  [query_type |-> query_type,
                  confidence |-> Confidence(score, Len(routing_patterns(query_type))),
                  matched_keywords |->
                      Join([i \in 1..Len(RoutingOrder) |-> Matches(RoutingOrder[i], query_lower)]),
                  suggested_tags |-> _get_tags_for_type(query_type)]

\* QueryRouter.route_query
route_query(query) ==
    LET query_lower == lower(query)
    IN  IF Scored(query_lower) = << >>
        THEN [query_type |-> GENERIC,
              confidence |-> [num |-> 0, den |-> 1],
              matched_keywords |-> << >>,
              suggested_tags |-> <<"general", "nvidia">>]
        ELSE LET query_type == BestMatch(query_lower)
                 score == Len(Matches(query_type, query_lower))
             IN  [query_type |-> query_type,
                  confidence |-> Confidence(score, Len(routing_patterns(query_type))),
                  matched_keywords |-> Matches(query_type, query_lower),
                  suggested_tags |-> _get_tags_for_type(query_type)]

----------------------------------------------------------------------------
(* Python str() of the values that are formatted into text.                *)

Digits == <<"0","1","2","3","4","5","6","7","8","9">>

IsDigit(c) == \E i \in 1..Len(Digits) : Digits[i] = c

RECURSIVE str_nat(_)
\* str(n) for an int n >= 0
str_nat(n) == IF n < 10 THEN <<Digits[n + 1]>> ELSE str_nat(n \div 10) \o <<Digits[(n % 10) + 1]>>

\* str(n) for an int
str_int(n) == IF n < 0 THEN <<"-">> \o str_nat(0 - n) ELSE str_nat(n)

\* str(b) for a bool
str_bool(b) == IF b THEN <<"T","r","u","e">> ELSE <<"F","a","l","s","e">>

----------------------------------------------------------------------------
(* CompatibilityReasoner (services/compatibility.py).                      *)

\* The keys of `patterns` in _extract_versions, in dict order; each pattern is
\* <software>\s*v?(\d+(\.\d+)?)
SoftwareOrder ==
    <<
      <<"c","u","d","a">>,
      <<"t","e","n","s","o","r","r","t">>,
      <<"c","u","d","n","n">>,
      <<"d","r","i","v","e","r">>
    >>

RECURSIVE SkipSpaces(_, _)
\* \s* from position i: the first position that holds no whitespace
SkipSpaces(s, i) ==
    IF i <= Len(s) /\ s[i] \in {" ", "\t", "\n", "\r"} THEN SkipSpaces(s, i + 1) ELSE i

RECURSIVE SkipDigits(_, _)
\* \d* from position i: the first position that holds no digit
SkipDigits(s, i) == IF i <= Len(s) /\ IsDigit(s[i]) THEN SkipDigits(s, i + 1) ELSE i

\* v? from position a
SkipV(s, a) == IF a <= Len(s) /\ s[a] = "v" THEN a + 1 ELSE a

\* (\d+(\.\d+)?) from position b, the digits \d* from b ending before c:
\* group(1), or None when there is no digit at b
VersionBetween(s, b, c) ==
    IF c = b THEN None
    ELSE SubSeq(s, b, (IF c + 1 <= Len(s) /\ s[c] = "." /\ IsDigit(s[c + 1])
                       THEN SkipDigits(s, c + 1)
                       ELSE c) - 1)

\* (\d+(\.\d+)?) from position b
VersionFrom(s, b) == VersionBetween(s, b, SkipDigits(s, b))

\* The match of <software>\s*v?(\d+(\.\d+)?) anchored at position i: group(1),
\* or None when there is no match at i.
MatchVersionAt(software, s, i) ==
    IF i + Len(software) - 1 <= Len(s) /\ \A j \in 1..Len(software) : s[i + j - 1] = software[j]
    THEN VersionFrom(s, SkipV(s, SkipSpaces(s, i + Len(software))))
    ELSE None

RECURSIVE SearchVersionFrom(_, _, _)
\* The match at position i if there is one, else the leftmost match after i
MatchOrLater(found, software, s, i) ==
    IF found # None THEN found ELSE SearchVersionFrom(software, s, i + 1)

\* The leftmost match at or after position i, or None
SearchVersionFrom(software, s, i) ==
    IF i > Len(s) THEN None
    ELSE MatchOrLater(MatchVersionAt(software, s, i), software, s, i)

\* re.search(pattern, query_lower): group(1) of the leftmost match, or None
SearchVersion(software, s) == SearchVersionFrom(software, s, 1)

\* CompatibilityReasoner._extract_versions: the dict as the sequence of its
\* (software, version) items, in the order of `patterns`
_extract_versions(query) ==
    SelectSeq([i \in 1..Len(SoftwareOrder) |->
                  <<SoftwareOrder[i], SearchVersion(SoftwareOrder[i], lower(query))>>],
              LAMBDA item : item[2] # None)

\* versions[software]; None when the key is absent
VersionOf(versions, software) ==
    IF \E i \in 1..Len(versions) : versions[i][1] = software
    THEN versions[CHOOSE i \in 1..Len(versions) : versions[i][1] = software][2]
    ELSE None

\* The result of a lookup that found nothing (Python's None)
NoFinding == [present |-> FALSE]

\* The body of CompatibilityReasoner.check_compatibility once the versions
\* are extracted (trt_ver, cuda_ver: versions["tensorrt"], versions["cuda"])
CompatibilityInfo(versions, trt_ver, cuda_ver) ==
    LET both == trt_ver # None /\ cuda_ver # None
        warn == both /\ StartsWith(trt_ver, <<"1","0">>) /\ ~StartsWith(cuda_ver, <<"1","2">>)
        inf == both /\ ~warn /\ StartsWith(trt_ver, <<"8">>) /\ StartsWith(cuda_ver, <<"1","2">>)
    IN  IF versions = << >>
        THEN NoFinding
        ELSE [present |-> TRUE,
              detected_versions |-> versions,
              warnings |-> IF warn
                           THEN <<<<"T","e","n","s","o","r","R","T"," ">> \o trt_ver \o <<" ","i","s"," ","o","p","t","i","m","i","z","e","d"," ","f","o","r"," ","C","U","D","A"," ",
                               "1","2",".","x","."," ","U","s","i","n","g"," ","C","U","D","A"," ">> \o cuda_ver \o <<" ","m","a","y"," ","c","a","u","s","e"," ","i","s","s","u","e","s",".">>>>
                           ELSE << >>,
              info |-> IF inf
                       THEN <<<<"T","e","n","s","o","r","R","T"," ">> \o trt_ver \o <<" ","s","u","p","p","o","r","t","s"," ","C","U","D","A"," ">> \o cuda_ver \o <<","," ","b","u","t"," ","c","h","e","c","k"," ","s","p","e","c","i","f","i","c"," ","m","i",
                           "n","o","r"," ","v","e","r","s","i","o","n"," ","r","e","q","u","i","r","e","m","e","n","t",
                           "s",".">>>>
                       ELSE << >>,
              matrix_link |-> <<"h","t","t","p","s",":","/","/","d","o","c","s",".","n","v","i","d","i","a",".","c","o","m",
                  "/","d","e","e","p","l","e","a","r","n","i","n","g","/","t","e","n","s","o","r","r","t","/",
                  "s","u","p","p","o","r","t","-","m","a","t","r","i","x","/","i","n","d","e","x",".","h","t",
                  "m","l">>]

\* check_compatibility on the extracted versions
CompatibilityOf(versions) ==
    CompatibilityInfo(versions, VersionOf(versions, SoftwareOrder[2]),
                      VersionOf(versions, SoftwareOrder[1]))

\* CompatibilityReasoner.check_compatibility
check_compatibility(query) == CompatibilityOf(_extract_versions(query))

----------------------------------------------------------------------------
(* DebuggerService (services/debugger.py).                                 *)

Flow_MIG_CONFIG ==
    [present |-> TRUE,
     title |-> <<"M","I","G"," ","C","o","n","f","i","g","u","r","a","t","i","o","n"," ","D","e","b","u","g",
         "g","e","r">>,
     steps |-> <<
        [id |-> 1, action |-> <<"C","h","e","c","k"," ","i","f"," ","M","I","G"," ","i","s"," ","e","n","a","b","l","e","d",
            " ","o","n"," ","t","h","e"," ","G","P","U">>, command |-> <<"n","v","i","d","i","a","-","s","m","i"," ","-","i"," ","<","g","p","u","_","i","d",">"," ",
            "-","-","q","u","e","r","y","-","g","p","u","=","m","i","g",".","m","o","d","e",".","c","u",
            "r","r","e","n","t"," ","-","-","f","o","r","m","a","t","=","c","s","v",",","n","o","h","e",
            "a","d","e","r">>,
         expected |-> <<"E","n","a","b","l","e","d">>, fix |-> <<"R","u","n"," ","U+0060","s","u","d","o"," ","n","v","i","d","i","a","-","s","m","i"," ",
             "-","i"," ","<","g","p","u","_","i","d",">"," ","-","m","i","g"," ","1","U+0060"," ","(",
             "R","e","q","u","i","r","e","s"," ","r","o","o","t"," ","&"," ","G","P","U"," ","r","e","s",
             "e","t",")">>],
        [id |-> 2, action |-> <<"L","i","s","t"," ","a","v","a","i","l","a","b","l","e"," ","M","I","G"," ","p","r","o","f",
            "i","l","e","s">>, command |-> <<"n","v","i","d","i","a","-","s","m","i"," ","m","i","g"," ","-","l","g","i","p">>,
         expected |-> <<"L","i","s","t"," ","o","f"," ","p","r","o","f","i","l","e","s"," ","(","e",".","g",".",",",
             " ","1","g",".","5","g","b",","," ","2","g",".","1","0","g","b",")">>, fix |-> <<"E","n","s","u","r","e"," ","G","P","U"," ","s","u","p","p","o","r","t","s"," ","M","I","G",
             " ","(","A","1","0","0",","," ","H","1","0","0",")"," ","a","n","d"," ","d","r","i","v","e",
             "r"," ","i","s"," ","u","p"," ","t","o"," ","d","a","t","e">>],
        [id |-> 3, action |-> <<"C","r","e","a","t","e"," ","a"," ","M","I","G"," ","i","n","s","t","a","n","c","e">>, command |-> <<"s","u","d","o"," ","n","v","i","d","i","a","-","s","m","i"," ","m","i","g"," ","-","c","g",
            "i"," ","<","p","r","o","f","i","l","e","_","i","d",">"," ","-","C">>,
         expected |-> <<"M","I","G"," ","i","n","s","t","a","n","c","e"," ","c","r","e","a","t","e","d"," ","s","u",
             "c","c","e","s","s","f","u","l","l","y">>, fix |-> <<"C","h","e","c","k"," ","f","o","r"," ","e","x","i","s","t","i","n","g"," ","i","n","s","t",
             "a","n","c","e","s"," ","c","o","n","s","u","m","i","n","g"," ","r","e","s","o","u","r","c",
             "e","s">>]>>]

Flow_CUDA_OOM ==
    [present |-> TRUE,
     title |-> <<"C","U","D","A"," ","O","u","t"," ","o","f"," ","M","e","m","o","r","y"," ","(","O","O","M",
         ")"," ","D","e","b","u","g","g","e","r">>,
     steps |-> <<
        [id |-> 1, action |-> <<"C","h","e","c","k"," ","c","u","r","r","e","n","t"," ","G","P","U"," ","m","e","m","o","r",
            "y"," ","u","s","a","g","e">>, command |-> <<"n","v","i","d","i","a","-","s","m","i">>,
         expected |-> <<"A","v","a","i","l","a","b","l","e"," ","m","e","m","o","r","y"," ",">"," ","R","e","q","u",
             "i","r","e","d"," ","m","e","m","o","r","y">>, fix |-> <<"K","i","l","l"," ","z","o","m","b","i","e"," ","p","r","o","c","e","s","s","e","s"," ","u",
             "s","i","n","g"," ","U+0060","k","i","l","l"," ","-","9"," ","<","p","i","d",">","U+0060">>],
        [id |-> 2, action |-> <<"A","n","a","l","y","z","e"," ","m","e","m","o","r","y"," ","f","r","a","g","m","e","n","t",
            "a","t","i","o","n">>, command |-> <<"U","s","e"," ","U+0060","t","o","r","c","h",".","c","u","d","a",".","m","e","m","o","r",
            "y","_","s","u","m","m","a","r","y","(",")","U+0060"," ","(","P","y","T","o","r","c","h",
            ")"," ","o","r"," ","N","s","i","g","h","t"," ","S","y","s","t","e","m","s">>,
         expected |-> <<"L","o","w"," ","f","r","a","g","m","e","n","t","a","t","i","o","n">>, fix |-> <<"U","s","e"," ","U+0060","t","o","r","c","h",".","c","u","d","a",".","e","m","p","t","y",
             "_","c","a","c","h","e","(",")","U+0060"," ","o","r"," ","a","d","j","u","s","t"," ","b",
             "a","t","c","h"," ","s","i","z","e">>]>>]

\* DebuggerService.get_debug_flow
get_debug_flow(query) ==
    LET query_lower == lower(query)
    IN  IF /\ Contains(<<"m","i","g">>, query_lower)
           /\ \/ Contains(<<"c","o","n","f","i","g">>, query_lower)
              \/ Contains(<<"e","n","a","b","l","e">>, query_lower)
              \/ Contains(<<"e","r","r","o","r">>, query_lower)
        THEN Flow_MIG_CONFIG
        ELSE IF Contains(<<"o","u","t"," ","o","f"," ","m","e","m","o","r","y">>, query_lower) \/ Contains(<<"o","o","m">>, query_lower)
        THEN Flow_CUDA_OOM
        ELSE NoFinding

----------------------------------------------------------------------------
(* Answer composition (RAGAgent._generate_mock_answer).                    *)

\* "I couldn't find relevant information in the NVIDIA documentation. Please try rephrasing y
\* our query or check the official NVIDIA documentation directly."
NoInfoAnswer ==
    <<"I"," ","c","o","u","l","d","n","'","t"," ","f","i","n","d"," ","r","e","l","e","v","a","n",
    "t"," ","i","n","f","o","r","m","a","t","i","o","n"," ","i","n"," ","t","h","e"," ","N","V",
    "I","D","I","A"," ","d","o","c","u","m","e","n","t","a","t","i","o","n","."," ","P","l","e",
    "a","s","e"," ","t","r","y"," ","r","e","p","h","r","a","s","i","n","g"," ","y","o","u","r",
    " ","q","u","e","r","y"," ","o","r"," ","c","h","e","c","k"," ","t","h","e"," ","o","f","f",
    "i","c","i","a","l"," ","N","V","I","D","I","A"," ","d","o","c","u","m","e","n","t","a","t",
    "i","o","n"," ","d","i","r","e","c","t","l","y",".">>

\* A variant of s[:n] that takes the last n elements: s[-n:]
Take_from_end(s, n) == SubSeq(s, (IF Len(s) < n THEN 0 ELSE Len(s) - n) + 1, Len(s))

\* The first n elements of a sequence: Python's s[:n]
Take(s, n) == SubSeq(s, 1, IF Len(s) < n THEN Len(s) ELSE n)

\* docs[:n] rendered one line each: "".join(line(i, docs[i]) for i in 1..)
Lines(items, line(_, _)) == Join([i \in 1..Len(items) |-> line(i, items[i])])

\* The length above which _generate_mock_answer cuts a passage
PreviewLength == 300

\* content_preview in _generate_mock_answer
content_preview(content) ==
    IF Len(content) > PreviewLength
    THEN SubSeq(content, 1, PreviewLength) \o <<".",".",".">>
    ELSE content

\* The intro line of _generate_mock_answer
Intro(query_type) ==
    CASE query_type = "mig_config" -> <<"B","a","s","e","d"," ","o","n"," ","N","V","I","D","I","A","'","s"," ","M","I","G"," ","d",
        "o","c","u","m","e","n","t","a","t","i","o","n",":">>
      [] query_type = "tensorrt" -> <<"A","c","c","o","r","d","i","n","g"," ","t","o"," ","T","e","n","s","o","r","R","T"," ","d",
          "o","c","u","m","e","n","t","a","t","i","o","n",":">>
      [] query_type = "cuda_general" -> <<"F","r","o","m"," ","t","h","e"," ","C","U","D","A"," ","p","r","o","g","r","a","m","m","i",
          "n","g"," ","g","u","i","d","e",":">>
      [] OTHER -> <<"B","a","s","e","d"," ","o","n"," ","N","V","I","D","I","A"," ","d","o","c","u","m","e","n",
          "t","a","t","i","o","n",":">>

\* _generate_mock_answer on one or more documents (lines 275 to 326)
TemplateAnswer(query, docs, query_type, code_examples, compatibility_info, debug_flow) ==
    Intro(query_type)
    \o <<"\n","\n","*","*","K","e","y"," ","I","n","f","o","r","m","a","t","i","o","n",":","*","*",
        "\n">>
    \o Lines(Take(docs, 2),
             LAMBDA i, doc : str_int(i) \o <<".", " ">> \o content_preview(doc.content) \o <<"\n">>)
    \o (IF compatibility_info.present
        THEN <<"\n","*","*","V","e","r","s","i","o","n"," ","C","o","m","p","a","t","i","b","i","l","i",
            "t","y",":","*","*","\n">>
             \o Lines(compatibility_info.warnings,
                      LAMBDA i, warn : <<"U+26A0","U+FE0F"," ">> \o warn \o <<"\n">>)
             \o Lines(compatibility_info.info,
                      LAMBDA i, inf : <<"U+2139","U+FE0F"," ">> \o inf \o <<"\n">>)
        ELSE << >>)
    \o (IF debug_flow.present
        THEN <<"\n", "*", "*">> \o debug_flow.title \o <<":", "*", "*", "\n">>
             \o Lines(debug_flow.steps,
                      LAMBDA i, step :
                          str_int(step.id) \o <<".", " ", "*", "*">> \o step.action
                              \o <<"*", "*", "\n">>
                          \o <<" "," "," ","C","o","m","m","a","n","d",":"," ","U+0060">> \o step.command \o <<"U+0060", "\n">>
                          \o <<" "," "," ","F","i","x",":"," ">> \o step.fix \o <<"\n">>)
        ELSE << >>)
    \o (IF Len(code_examples) > 0
        THEN <<"\n","*","*","C","o","d","e"," ","E","x","a","m","p","l","e","s",":","*","*","\n">>
             \o Lines(code_examples,
                      LAMBDA i, example :
                          str_int(i) \o <<".", " ", "[">> \o example.name \o <<"]", "(">>
                          \o example.url \o <<")", " ", "-", " ">> \o example.repo \o <<"\n">>)
        ELSE << >>)
    \o <<"\n","*","*","S","o","u","r","c","e","s",":","*","*","\n">>
    \o Lines(Take(docs, 3),
             LAMBDA i, doc :
                 str_int(i) \o <<".", " ", "[">> \o doc.metadata.title \o <<"]", "(">>
                 \o doc.metadata.url \o <<")", "\n">>)

\* A variant of _generate_mock_answer without the test for no documents.
_generate_mock_answer_without_empty_case(query, docs, query_type, code_examples, compatibility_info, debug_flow) ==
    TemplateAnswer(query, docs, query_type, code_examples, compatibility_info, debug_flow)

\* RAGAgent._generate_mock_answer.  code_examples = << >> also stands for the
\* None the LLM fallback passes (both are falsy).
_generate_mock_answer(query, docs, query_type, code_examples, compatibility_info, debug_flow) ==
    IF docs = << >>
    THEN NoInfoAnswer
    ELSE TemplateAnswer(query, docs, query_type, code_examples, compatibility_info, debug_flow)

\* RAGAgent._generate_llm_answer: the chain's response, and the template
\* answer without code examples when the chain raises.  llm is the outcome of
\* chain.invoke: [kind |-> "ok", text |-> ...] or [kind |-> "error"].
_generate_llm_answer(query, docs, query_type, compatibility_info, debug_flow, llm) ==
    IF llm.kind = "ok"
    THEN llm.text
    ELSE _generate_mock_answer(query, docs, query_type, << >>, compatibility_info, debug_flow)

----------------------------------------------------------------------------
(* CacheService (services/cache.py).  The cache is a function from cache   *)
(* keys to entries [data, timestamp].                                      *)

\* A request's cache parameters: the dict
\* {"n_results": n_results, "include_code": include_code_examples}
CacheParams(n_results, include_code) ==
    [n_results |-> n_results, include_code |-> include_code]

\* A rendering of params that leaves the include_code flag out.
str_params_without_flag(params) ==
    <<"{", "'", "n", "_", "r", "e", "s", "u", "l", "t", "s", "'", ":", " ">>
    \o str_int(params.n_results)
    \o <<"}">>

\* str(params) of the dict above:
\* "{'n_results': 5, 'include_code': True}"
str_params(params) ==
    <<"{", "'", "n", "_", "r", "e", "s", "u", "l", "t", "s", "'", ":", " ">>
    \o str_int(params.n_results)
    \o <<",", " ", "'", "i", "n", "c", "l", "u", "d", "e", "_", "c", "o", "d", "e", "'", ":", " ">>
    \o str_bool(params.include_code)
    \o <<"}">>

\* key_str in _get_cache_key: f"{query}:{str(params) if params else ''}";
\* [absent |-> TRUE] stands for a call without params (params = None)
key_str(query, params) ==
    query \o <<":">> \o (IF params = [absent |-> TRUE] THEN << >> ELSE str_params(params))

\* hashlib.md5(...).hexdigest(): the digest is taken to be collision-free on
\* the keys that occur, and is written as the tagged text it digests.
md5_hexdigest(text) == <<"md5">> \o text

\* CacheService._get_cache_key
_get_cache_key(query, params) == md5_hexdigest(key_str(query, params))

\* The empty dict
EmptyCache == [k \in {} |-> [data |-> None, timestamp |-> 0]]

\* del c[k]
Delete(c, k) == [j \in (DOMAIN c) \ {k} |-> c[j]]

\* c[k] = entry
Store(c, k, entry) == [j \in (DOMAIN c) \cup {k} |-> IF j = k THEN entry ELSE c[j]]

\* An expiry test that counts an entry of age exactly TTL as expired.
Expired_at_ttl(entry, ttl_, time) == time - entry.timestamp >= ttl_

\* The expiry test of get and get_stats
Expired(entry, ttl_, time) == time - entry.timestamp > ttl_

\* An Optional value: the data get returns, or Python's None
Some(v) == [some |-> TRUE, value |-> v]

Absent == [some |-> FALSE]

\* CacheService.get: the Optional returned and the cache it leaves.  time
\* is time.time().
get(c, is_enabled, ttl_, time, query, params) ==
    LET cache_key == _get_cache_key(query, params)
    IN  IF ~is_enabled
        THEN [returned |-> Absent, cache |-> c]
        ELSE IF cache_key \notin DOMAIN c
        THEN [returned |-> Absent, cache |-> c]
        ELSE IF Expired(c[cache_key], ttl_, time)
        THEN [returned |-> Absent, cache |-> Delete(c, cache_key)]
        ELSE [returned |-> Some(c[cache_key].data), cache |-> c]

\* A variant of set that stores nothing.
set_dropping(c, is_enabled, time, query, data, params) == c

\* A variant of set that stores whether or not the cache is enabled.
set_unconditional(c, is_enabled, time, query, data, params) ==
    Store(c, _get_cache_key(query, params), [data |-> data, timestamp |-> time])

\* CacheService.set: the cache it leaves
set(c, is_enabled, time, query, data, params) ==
    IF ~is_enabled
    THEN c
    ELSE Store(c, _get_cache_key(query, params), [data |-> data, timestamp |-> time])

\* A variant of clear that leaves the entries in place.
clear_keeping(c) == c

\* CacheService.clear: the cache it leaves
clear(c) == EmptyCache

\* A variant of get_stats that counts an entry of age exactly TTL as
\* expired.
get_stats_expiring_at_ttl(c, is_enabled, ttl_, time) ==
    LET total_entries == Cardinality(DOMAIN c)
        expired == Cardinality({k \in DOMAIN c : time - c[k].timestamp >= ttl_})
    IN  [enabled |-> is_enabled,
         total_entries |-> total_entries,
         active_entries |-> total_entries - expired,
         expired_entries |-> expired,
         ttl_seconds |-> ttl_]

\* CacheService.get_stats
get_stats(c, is_enabled, ttl_, time) ==
    LET total_entries == Cardinality(DOMAIN c)
        expired == Cardinality({k \in DOMAIN c : Expired(c[k], ttl_, time)})
    IN  [enabled |-> is_enabled,
         total_entries |-> total_entries,
         active_entries |-> total_entries - expired,
         expired_entries |-> expired,
         ttl_seconds |-> ttl_]

----------------------------------------------------------------------------
(* GitHubCodeSearchService (services/github_search.py).  http is the       *)
(* outcome of requests.get and of reading its payload:                     *)
(* [kind |-> "ok", items |-> ...], or kind "rate_limited" (status 403),    *)
(* "request_exception" (requests.exceptions.RequestException, also raised  *)
(* by raise_for_status) or "exception" (any other exception).              *)

\* GitHubCodeSearchService.search_code: every failure is caught and gives [].
search_code(query, repo, language, max_results, http) ==
    IF http.kind = "ok"
    THEN LET items == Take(http.items, max_results)
         IN  [i \in 1..Len(items) |->
                 [name |-> items[i].name,
                  path |-> items[i].path,
                  repo |-> items[i].full_name,
                  url |-> items[i].html_url,
                  \* 'Code example from ' and the repository
                  description |-> <<"C","o","d","e"," ","e","x","a","m","p","l","e"," ","f","r","o","m"," ">>
                                  \o items[i].full_name]]
    ELSE << >>

\* The outcome of a call that can raise: the value returned, or raised
Returned(value) == [raised |-> FALSE, value |-> value]

Raised == [raised |-> TRUE]

\* A variant of _get_code_examples in which a failed search escapes
\* (neither except clause absorbs it).
_get_code_examples_unguarded(query, query_type, http) ==
    IF http.kind = "ok"
    THEN Returned(search_code(query, "any", "any", 2, http))
    ELSE Raised

\* RAGAgent._get_code_examples: the search scoped by query type; whatever the
\* search raises is caught and gives [].
_get_code_examples(query, query_type, http) ==
    Returned(
        CASE query_type \in {"cuda_general", "cuda_profiling"} ->
                 search_code(query, "NVIDIA/cuda-samples", "cuda", 2, http)
          [] query_type = "tensorrt" ->
                 search_code(query, "NVIDIA/TensorRT", "python", 2, http)
          [] query_type = "nemo" ->
                 search_code(query, "NVIDIA/NeMo", "python", 2, http)
          [] OTHER ->
                 search_code(query, "none", "none", 2, http))

----------------------------------------------------------------------------
(* VectorStoreService (services/vector_store.py).  The collection is the   *)
(* sequence of stored documents; chroma is the outcome of                  *)
(* collection.query: [kind |-> "ok", ranking |-> the stored documents in   *)
(* ranked order] or [kind |-> "error"].                                    *)

\* The cap of search on the number of results
SearchCap == 20

Min(a, b) == IF a < b THEN a ELSE b

\* A variant of search that swallows the store's error and reports no
\* documents.
search_swallowing(query, n_results, chroma) ==
    IF IsBlank(query) \/ chroma.kind # "ok"
    THEN Returned(<< >>)
    ELSE Returned(Take(chroma.ranking, Min(n_results, SearchCap)))

\* VectorStoreService.search
search(query, n_results, chroma) ==
    IF IsBlank(query)
    THEN Returned(<< >>)
    ELSE IF chroma.kind # "ok"
    THEN Raised
    ELSE Returned(Take(chroma.ranking, Min(n_results, SearchCap)))

\* The message of the exception a failing call of the collection raises
\* (value used): 'database is locked'
StoreError ==
    <<"d","a","t","a","b","a","s","e"," ","i","s"," ","l","o","c","k","e","d">>

\* VectorStoreService.add_documents: the collection it leaves, or raised
\* (ValueError) when the store fails.  store_ok is the outcome of
\* collection.add.
add_documents(collection_, documents, store_ok) ==
    IF documents = << >>
    THEN [raised |-> FALSE, value |-> 0, collection |-> collection_]
    ELSE IF ~store_ok
    THEN [raised |-> TRUE, collection |-> collection_]
    ELSE [raised |-> FALSE, value |-> Len(documents), collection |-> collection_ \o documents]

----------------------------------------------------------------------------
(* The inputs the model draws from.                                        *)

\* 'MIG config'
Q_MigConfig ==
    <<"M","I","G"," ","c","o","n","f","i","g">>

\* 'how'
Q_How ==
    <<"h","o","w">>

\* The documents that can be stored, as search formats them; distance in
\* tenths
Docs ==
    {
      [content |-> <<"M","I","G"," ","g","u","i","d","e">>,  \* 'MIG guide'
       metadata |->
          [url |-> <<"h","t","t","p","s",":","/","/","d","o","c","s",".","n","v","i","d","i","a",".","c","o","m",
              "/","m","i","g">>,  \* 'https://docs.nvidia.com/mig'
           title |-> <<"M","I","G">>,  \* 'MIG'
           source |-> <<"m","a","n","u","a","l">>],  \* 'manual'
       distance |-> 3],
      [content |-> <<"r","u","m","o","r","e","d"," ","g","p","u">>,  \* 'rumored gpu'
       metadata |->
          [url |-> <<"h","t","t","p",":","/","/","b","l","o","g",".","e","x","a","m","p","l","e","/","g","p","u">>,  \* 'http://blog.example/gpu'
           title |-> <<"B","l","o","g">>,  \* 'Blog'
           source |-> <<"m","a","n","u","a","l">>],  \* 'manual'
       distance |-> 12]
    }

\* The requests of the query endpoint: QueryRequest (api/models.py)
Request(text, n_results, include_code_examples) ==
    [query |-> text, n_results |-> n_results, include_code_examples |-> include_code_examples]

Requests ==
    {Request(Q_MigConfig, 1, TRUE), Request(Q_MigConfig, 1, FALSE),
     Request(Q_MigConfig, 2, TRUE), Request(Q_How, 1, TRUE),
     Request(<<"p","i","z","z","a">>, 1, TRUE),
     Request(<<"s","e","c","r","e","t"," ","c","u","d","a">>, 1, TRUE),
     \* a query that passes min_length = 1 and is empty once stripped
     Request(<<" ">>, 1, TRUE)}

\* The outcomes of the external calls of one request
HttpOutcomes ==
    {[kind |-> "ok",
      items |-> <<
          [name |-> <<"a",".","c","u">>,  \* 'a.cu'
           path |-> <<"s","/","a",".","c","u">>,  \* 's/a.cu'
           full_name |-> <<"N","V","I","D","I","A","/","c","u","d","a","-","s","a","m","p","l","e","s">>,  \* 'NVIDIA/cuda-samples'
           html_url |-> <<"h","t","t","p","s",":","/","/","g","i","t","h","u","b",".","c","o","m","/","N","V","I","D",
              "I","A","/","a">>],  \* 'https://github.com/NVIDIA/a'
          [name |-> <<"b",".","p","y">>,  \* 'b.py'
           path |-> <<"b",".","p","y">>,  \* 'b.py'
           full_name |-> <<"N","V","I","D","I","A","/","N","e","M","o">>,  \* 'NVIDIA/NeMo'
           html_url |-> <<"h","t","t","p","s",":","/","/","g","h",".","e","x","a","m","p","l","e","/","b">>],  \* 'https://gh.example/b'
          [name |-> <<"c",".","p","y">>,  \* 'c.py'
           path |-> <<"c",".","p","y">>,  \* 'c.py'
           full_name |-> <<"N","V","I","D","I","A","/","T","e","n","s","o","r","R","T">>,  \* 'NVIDIA/TensorRT'
           html_url |-> <<"h","t","t","p","s",":","/","/","g","h",".","e","x","a","m","p","l","e","/","c">>]  \* 'https://gh.example/c'
        >>],
     [kind |-> "rate_limited"], [kind |-> "request_exception"], [kind |-> "exception"]}

\* chain.invoke answers 'It will be released soon.', or raises
LLMOutcomes ==
    {[kind |-> "ok",
      text |-> <<"I","t"," ","w","i","l","l"," ","b","e"," ","r","e","l","e","a","s","e","d"," ",
                 "s","o","o","n",".">>],
     [kind |-> "error"]}

\* The configurations the services are built with (core/config.py): the
\* default one, and the default with one setting changed (cache disabled,
\* guardrails disabled, an LLM available)
Config(enable_cache, enable_guardrails, llm_provider) ==
    [ENABLE_CACHE |-> enable_cache, ENABLE_GUARDRAILS |-> enable_guardrails,
     llm_provider |-> llm_provider]

Configs ==
    {Config(TRUE, TRUE, "none"), Config(FALSE, TRUE, "none"),
     Config(TRUE, FALSE, "none"), Config(TRUE, TRUE, "nvidia_nim")}

----------------------------------------------------------------------------
(* Bounds of the model.                                                    *)

\* The clock runs from 0 to MaxTime
MaxTime == 2

\* The cache TTL is drawn from 1..MaxTTL
MaxTTL == 1

\* The number of endpoint calls of one behaviour
MaxOps == 2

\* The number of documents the collection holds
MaxDocs == 1

\* The number of CacheService calls of one behaviour
MaxCalls == 3

\* The number of threads that call the CacheService
NumThreads == 2

\* The number of fragments a text of SpecText is made of, at most
MaxWords == 2

\* The number of passages a composition of SpecText is given, at most
MaxPassages == 4

\* The argument retries of fetch_page is drawn from 0..MaxRetries
MaxRetries == 4

----------------------------------------------------------------------------
(* The outcomes of the external calls the model draws from.               *)

RECURSIVE SeqsUpTo(_, _)
\* The sequences over S of length at most n
SeqsUpTo(S, n) ==
    IF n = 0 THEN {<< >>}
    ELSE LET shorter == SeqsUpTo(S, n - 1)
         IN  shorter \cup {Append(q, e) : q \in shorter, e \in S}

\* The orders in which collection.query can rank the stored documents
Rankings(coll) ==
    {r \in SeqsUpTo(Docs, Len(coll)) :
        /\ Len(r) = Len(coll)
        /\ \E f \in [1..Len(coll) -> 1..Len(coll)] :
              /\ \A i, j \in 1..Len(coll) : f[i] = f[j] => i = j
              /\ \A i \in 1..Len(coll) : r[i] = coll[f[i]]}

\* The outcomes of the external calls of one request over a collection
Envs(coll) ==
    [chroma : {[kind |-> "ok", ranking |-> r] : r \in Rankings(coll)} \cup {[kind |-> "error"]},
     http : HttpOutcomes, llm : LLMOutcomes]

----------------------------------------------------------------------------
(* RAGAgent (services/rag_agent.py).  settings is the configuration the         *)
(* services were built with: ENABLE_CACHE, ENABLE_GUARDRAILS and the LLM   *)
(* provider ("none": no LLM, use_llm is False).  env holds the outcomes of *)
(* the external calls of one request: chroma, http, llm.                   *)

\* RAGAgent.get_llm_info
get_llm_info(settings) ==
    [provider |-> settings.llm_provider,
     model |-> CASE settings.llm_provider = "nvidia_nim" -> "meta/llama-3.1-70b-instruct"
                 [] settings.llm_provider = "huggingface" -> "mistralai/Mistral-7B-Instruct-v0.2"
                 [] settings.llm_provider = "openai" -> "gpt-4-turbo-preview"
                 [] OTHER -> "None",
     is_nvidia |-> settings.llm_provider = "nvidia_nim"]

\* RAGAgent._get_active_nvidia_tech
_get_active_nvidia_tech(settings) ==
    (IF settings.llm_provider = "nvidia_nim" THEN <<"nim">> ELSE << >>)
    \o (IF settings.ENABLE_GUARDRAILS THEN <<"nemo-guardrails">> ELSE << >>)
    \o <<"cuda">>

\* The terminal result of a query the input check rejects
BlockedResult(settings, user_query, rejection_msg) ==
    [query |-> user_query,
     answer |-> rejection_msg,
     query_type |-> "blocked",
     confidence |-> [num |-> 1, den |-> 1],
     sources |-> << >>,
     code_examples |-> << >>,
     matched_keywords |-> << >>,
     suggested_tags |-> <<"guardrails", "safety">>,
     llm_info |-> get_llm_info(settings),
     nvidia_technologies |-> <<"nemo-guardrails">>,
     guardrails_triggered |-> TRUE]

\* Step 7 of RAGAgent.query.  The relevance of a source and the distance of
\* a passage are in tenths, the distance -1 standing for None.
FormatResult(settings, user_query, answer, routing_result, retrieved_docs, code_examples) ==
    [query |-> user_query,
     answer |-> answer,
     query_type |-> routing_result.query_type,
     confidence |-> routing_result.confidence,
     sources |-> [i \in 1..Len(Take(retrieved_docs, 3)) |->
                     [title |-> retrieved_docs[i].metadata.title,
                      url |-> retrieved_docs[i].metadata.url,
                      relevance |-> 10 - (IF retrieved_docs[i].distance = -1 THEN 0
                                          ELSE retrieved_docs[i].distance)]],
     code_examples |-> code_examples,
     matched_keywords |-> routing_result.matched_keywords,
     suggested_tags |-> routing_result.suggested_tags,
     llm_info |-> get_llm_info(settings),
     nvidia_technologies |-> _get_active_nvidia_tech(settings)]

\* The stages of RAGAgent.query up to the retrieval
UptoSearch == <<"check_input", "cache_get", "route_query", "search">>

\* A variant of steps 6 and 7 that formats the composed answer as it is.
AfterAnswer_unchecked(settings, user_query, routing_result, retrieved_docs, code_examples, stages, answer) ==
    [raised |-> FALSE,
     result |-> FormatResult(settings, user_query, answer,
                             routing_result, retrieved_docs, code_examples),
     stages |-> stages]

\* Steps 6 and 7 of RAGAgent.query: the output check and the result
AfterAnswer(settings, user_query, routing_result, retrieved_docs, code_examples, stages, answer) ==
    [raised |-> FALSE,
     result |-> FormatResult(settings, user_query,
                             check_output(settings.ENABLE_GUARDRAILS, answer).response,
                             routing_result, retrieved_docs, code_examples),
     stages |-> stages \o <<"check_output">>]

\* Step 5 of RAGAgent.query: the answer, from the LLM when there is one
AfterLookups(settings, user_query, routing_result, retrieved_docs, code_examples, compatibility_info, debug_flow, env, stages) ==
    AfterAnswer(settings, user_query, routing_result, retrieved_docs, code_examples,
                stages \o (IF settings.llm_provider # "none"
                           THEN <<"generate_llm">> ELSE <<"generate_mock">>),
                IF settings.llm_provider # "none"
                THEN _generate_llm_answer(user_query, retrieved_docs,
                                          routing_result.query_type,
                                          compatibility_info, debug_flow, env.llm)
                ELSE _generate_mock_answer(user_query, retrieved_docs,
                                           routing_result.query_type, code_examples,
                                           compatibility_info, debug_flow))

\* Step 4 of RAGAgent.query after the code-example lookup: the compatibility
\* check and the debug-flow lookup
AfterCodeExamples(settings, user_query, routing_result, retrieved_docs, looked_up, env, stages) ==
    IF looked_up.raised
    THEN [raised |-> TRUE, stages |-> stages]
    ELSE AfterLookups(settings, user_query, routing_result, retrieved_docs,
                      looked_up.value, check_compatibility(user_query),
                      get_debug_flow(user_query), env,
                      stages \o <<"check_compatibility", "get_debug_flow">>)

\* Step 4 of RAGAgent.query after the retrieval: the code-example lookup,
\* made when examples are wanted and the query type is not generic
AfterSearch(settings, user_query, include_code_examples, routing_result, retrieved, env) ==
    IF retrieved.raised
    THEN [raised |-> TRUE, stages |-> UptoSearch]
    ELSE AfterCodeExamples(
             settings, user_query, routing_result, retrieved.value,
             IF include_code_examples /\ routing_result.query_type # GENERIC
             THEN _get_code_examples(user_query, routing_result.query_type, env.http)
             ELSE Returned(<< >>),
             env,
             UptoSearch \o (IF include_code_examples /\ routing_result.query_type # GENERIC
                            THEN <<"code_examples">> ELSE << >>))

\* Steps 2 to 7 of RAGAgent.query, which read neither the cache nor the
\* clock: [raised, result, stages]
Compose(settings, user_query, n_results, include_code_examples, env) ==
    AfterSearch(settings, user_query, include_code_examples, route_query(user_query),
                search(user_query, n_results, env.chroma), env)

\* The result slot of a call that returned none
NoResult == [query_type |-> "none"]

\* Whether a stage is among the stages a call ran
Ran(stages, stage) == \E i \in 1..Len(stages) : stages[i] = stage

\* What steps 2 to 7 gave, with the external calls that were made and failed
Attempted(done, env) ==
    [raised |-> done.raised,
     result |-> IF done.raised THEN NoResult ELSE done.result,
     stages |-> done.stages,
     failed |-> [chroma |-> Ran(done.stages, "search") /\ env.chroma.kind # "ok",
                 http |-> Ran(done.stages, "code_examples") /\ env.http.kind # "ok",
                 llm |-> Ran(done.stages, "generate_llm") /\ env.llm.kind # "ok"]]

\* Steps 2 to 7 under the external outcomes env
Attempt(settings, request, env) ==
    Attempted(Compose(settings, request.query, request.n_results,
                      request.include_code_examples, env), env)

\* Attempt and check_input tabulated over the inputs of the model, so that
\* each is computed once (the @@ makes the table an explicit function): for
\* a configuration, a request and a collection, what steps 2 to 7 can
\* produce over every outcome of the external calls
AttemptsTable ==
    [k \in [cfg : Configs, request : Requests, collection : SeqsUpTo(Docs, MaxDocs)] |->
        {Attempt(k.cfg, k.request, env) : env \in Envs(k.collection)}] @@ << >>

Attempts(settings, request, coll) ==
    AttemptsTable[[cfg |-> settings, request |-> request, collection |-> coll]]

InputCheckTable ==
    [k \in [enabled : BOOLEAN, query : {r.query : r \in Requests}] |->
        check_input(k.enabled, k.query)] @@ << >>

\* A call that ran no external call
NoneFailed == [chroma |-> FALSE, http |-> FALSE, llm |-> FALSE]

\* A variant of step 8 that stores in the cache also when a step failed.
Pipeline_storing_failures(settings, c, time, user_query, n_results, include_code_examples, done) ==
    [raised |-> done.raised,
     result |-> IF done.raised THEN NoResult ELSE done.result,
     cache |-> set(c, settings.ENABLE_CACHE, time, user_query,
                   IF done.raised THEN NoResult ELSE done.result,
                   CacheParams(n_results, include_code_examples)),
     stages |-> IF done.raised THEN done.stages ELSE done.stages \o <<"cache_set">>,
     failed |-> done.failed]

\* Step 8 of RAGAgent.query after steps 2 to 7 gave `done`, the cache probe
\* having missed and left the cache c: [raised, result, cache, stages, failed]
Pipeline(settings, c, time, user_query, n_results, include_code_examples, done) ==
    IF done.raised
    THEN [raised |-> TRUE, result |-> NoResult, cache |-> c, stages |-> done.stages,
          failed |-> done.failed]
    ELSE [raised |-> FALSE,
          result |-> done.result,
          cache |-> set(c, settings.ENABLE_CACHE, time, user_query, done.result,
                        CacheParams(n_results, include_code_examples)),
          stages |-> done.stages \o <<"cache_set">>,
          failed |-> done.failed]

\* RAGAgent.query after the cache probe
AfterCacheGet(settings, time, user_query, n_results, include_code_examples, done, probe) ==
    IF probe.returned.some
    THEN [raised |-> FALSE,
          result |-> probe.returned.value,
          cache |-> probe.cache,
          stages |-> <<"check_input", "cache_get">>,
          failed |-> NoneFailed]
    ELSE Pipeline(settings, probe.cache, time, user_query, n_results,
                  include_code_examples, done)

\* A variant of the input-check branch that stores the rejection in the
\* cache.
AfterCheckInput_caching(settings, c, ttl_, time, user_query, n_results, include_code_examples, done, checked) ==
    IF ~checked.is_allowed
    THEN [raised |-> FALSE,
          result |-> BlockedResult(settings, user_query, checked.msg),
          cache |-> set(c, settings.ENABLE_CACHE, time, user_query,
                        BlockedResult(settings, user_query, checked.msg),
                        CacheParams(n_results, include_code_examples)),
          stages |-> <<"check_input">>,
          failed |-> NoneFailed]
    ELSE AfterCacheGet(settings, time, user_query, n_results, include_code_examples, done,
                       get(c, settings.ENABLE_CACHE, ttl_, time, user_query,
                           CacheParams(n_results, include_code_examples)))

\* RAGAgent.query after the input check
AfterCheckInput(settings, c, ttl_, time, user_query, n_results, include_code_examples, done, checked) ==
    IF ~checked.is_allowed
    THEN [raised |-> FALSE,
          result |-> BlockedResult(settings, user_query, checked.msg),
          cache |-> c,
          stages |-> <<"check_input">>,
          failed |-> NoneFailed]
    ELSE AfterCacheGet(settings, time, user_query, n_results, include_code_examples, done,
                       get(c, settings.ENABLE_CACHE, ttl_, time, user_query,
                           CacheParams(n_results, include_code_examples)))

\* RAGAgent.query: [raised, result, cache, stages, failed].  raised: the
\* RuntimeError of the except clause.  done: what steps 2 to 7 give under
\* the outcomes of this request's external calls.
query(settings, c, ttl_, time, user_query, n_results, include_code_examples, done) ==
    AfterCheckInput(settings, c, ttl_, time, user_query, n_results,
                    include_code_examples, done,
                    InputCheckTable[[enabled |-> settings.ENABLE_GUARDRAILS,
                                     query |-> user_query]])

----------------------------------------------------------------------------
(* The service as a state machine: the API routes (api/routes.py) over the *)
(* process-wide cache_service, vector_store and rag_agent.                 *)

VARIABLES
    cfg,         \* the configuration (fixed at start-up)
    ttl,         \* cache_service.ttl
    now,         \* time.time()
    cache,       \* cache_service.cache
    collection,  \* the documents of the vector store
    last,        \* the last call and its response
    ops,         \* the number of calls so far
    threads      \* the CacheService calls in progress, by thread

vars == <<cfg, ttl, now, cache, collection, last, ops, threads>>

Init ==
    /\ cfg \in Configs
    /\ ttl \in 1..MaxTTL
    /\ now = 0
    /\ cache = EmptyCache
    /\ collection = << >>
    /\ last = [op |-> "init"]
    /\ ops = 0
    /\ threads = << >>

\* time.time() advances
Tick ==
    /\ now < MaxTime
    /\ now' = now + 1
    /\ UNCHANGED <<cfg, ttl, cache, collection, last, ops, threads>>

\* QueryResponse(**result) validates: every Source.relevance within [0, 1]
\* (api/models.py); relevance in tenths
ResponseValid(result) ==
    \A i \in 1..Len(result.sources) :
        result.sources[i].relevance >= 0 /\ result.sources[i].relevance <= 10

\* The fields QueryResponse keeps of a result
QueryResponse(result) ==
    [query |-> result.query,
     answer |-> result.answer,
     query_type |-> result.query_type,
     confidence |-> result.confidence,
     sources |-> result.sources,
     code_examples |-> result.code_examples,
     matched_keywords |-> result.matched_keywords,
     suggested_tags |-> result.suggested_tags]

\* The status of query_endpoint's response.  The HTTPException(400) of the
\* empty-query test is raised inside the try block, whose `except Exception`
\* turns it into a 500; RuntimeError gives 500; the ValidationError of
\* QueryResponse is a ValueError and gives 400.
QueryStatus(request, outcome) ==
    IF IsBlank(request.query) THEN 500
    ELSE IF outcome.raised THEN 500
    ELSE IF ~ResponseValid(outcome.result) THEN 400
    ELSE 200

\* str(e) of the exception query_endpoint catches, None when it catches
\* none: the HTTPException of the empty-query test, the RuntimeError of
\* RAGAgent.query (which carries the message of the exception of the failed
\* step), the ValidationError of QueryResponse
QueryError(request, outcome) ==
    CASE IsBlank(request.query) ->
            \* 'Query cannot be empty'
            <<"Q","u","e","r","y"," ","c","a","n","n","o","t"," ","b","e"," ","e","m","p","t",
              "y">>
      [] outcome.raised ->
            \* 'Query processing failed: ' and the message of the failed step
            <<"Q","u","e","r","y"," ","p","r","o","c","e","s","s","i","n","g"," ","f","a","i",
              "l","e","d",":"," ">>
            \o StoreError
      [] ~ResponseValid(outcome.result) ->
            \* 'relevance: Input should be less than or equal to 1'
            <<"r","e","l","e","v","a","n","c","e",":"," ","I","n","p","u","t"," ","s","h","o",
              "u","l","d"," ","b","e"," ","l","e","s","s"," ","t","h","a","n"," ","o","r"," ",
              "e","q","u","a","l"," ","t","o"," ","1">>
      [] OTHER -> None

\* Whether `last` is an allowed query call that completed without raising
AllowedAndSuccessful(l) ==
    l.op = "query" /\ l.called /\ ~l.raised /\ l.result.query_type # "blocked"

\* The record of one query_endpoint call
QueryRecord(request, outcome, time, previous) ==
    LET repeated == AllowedAndSuccessful(previous) /\ previous.request = request
    IN  [op |-> "query",
         request |-> request,
         called |-> ~IsBlank(request.query),
         raised |-> outcome.raised,
         result |-> outcome.result,
         stages |-> outcome.stages,
         failed |-> outcome.failed,
         status |-> QueryStatus(request, outcome),
         error |-> QueryError(request, outcome),
         detail |-> CASE QueryStatus(request, outcome) = 200 -> None
                      [] QueryStatus(request, outcome) = 400 -> QueryError(request, outcome)
                      [] IsBlank(request.query) ->
                            \* 'An unexpected error occurred. Please try again later.'
                            <<"A","n"," ","u","n","e","x","p","e","c","t","e","d"," ","e","r",
                              "r","o","r"," ","o","c","c","u","r","r","e","d","."," ","P","l",
                              "e","a","s","e"," ","t","r","y"," ","a","g","a","i","n"," ","l",
                              "a","t","e","r",".">>
                      [] OTHER ->
                            \* 'An error occurred while processing your query. Please try again.'
                            <<"A","n"," ","e","r","r","o","r"," ","o","c","c","u","r","r","e",
                              "d"," ","w","h","i","l","e"," ","p","r","o","c","e","s","s","i",
                              "n","g"," ","y","o","u","r"," ","q","u","e","r","y","."," ","P",
                              "l","e","a","s","e"," ","t","r","y"," ","a","g","a","i","n",".">>,
         t |-> time,
         repeated |-> repeated,
         prev_t |-> IF repeated THEN previous.t ELSE time]

\* POST /query: query_endpoint.  An empty query never reaches RAGAgent.query.
\* done: what steps 2 to 7 of RAGAgent.query give under the outcomes of this
\* request's external calls.
QueryEndpoint(request, done) ==
    /\ ops < MaxOps
    /\ \E outcome \in
           {IF IsBlank(request.query)
            THEN [raised |-> FALSE, result |-> NoResult, cache |-> cache,
                  stages |-> << >>, failed |-> NoneFailed]
            ELSE query(cfg, cache, ttl, now, request.query, request.n_results,
                       request.include_code_examples, done)} :
           /\ cache' = outcome.cache
           /\ last' = QueryRecord(request, outcome, now, last)
    /\ ops' = ops + 1
    /\ UNCHANGED <<cfg, ttl, now, collection, threads>>

\* str(e) of the exception ingest_documents catches, None when it catches
\* none: the HTTPException of the empty-list test, the ValueError of
\* add_documents
IngestError(documents, added) ==
    IF documents = << >>
    THEN \* 'No documents provided'
         <<"N","o"," ","d","o","c","u","m","e","n","t","s"," ","p","r","o","v","i","d","e","d">>
    ELSE IF added.raised
    THEN \* 'Failed to add documents: ' and the message of the store
         <<"F","a","i","l","e","d"," ","t","o"," ","a","d","d"," ","d","o","c","u","m","e","n",
           "t","s",":"," ">>
         \o StoreError
    ELSE None

\* A variant of ingest_documents that leaves the cache as it is.
IngestEndpoint_keeping_cache(documents, store_ok) ==
    LET added == add_documents(collection, documents, store_ok)
        ok == documents # << >> /\ ~added.raised
    IN  /\ ops < MaxOps
        /\ Len(collection) + Len(documents) <= MaxDocs
        /\ collection' = (IF documents = << >> THEN collection ELSE added.collection)
        /\ cache' = cache
        /\ last' = [op |-> "ingest",
                    documents |-> documents,
                    status |-> IF documents = << >> THEN 500 ELSE IF added.raised THEN 400 ELSE 200,
                    error |-> IngestError(documents, added),
                    detail |-> IF documents = << >>
                               THEN \* 'Failed to ingest documents. Please check your data and try again.'
                                    <<"F","a","i","l","e","d"," ","t","o"," ","i","n","g","e",
                                      "s","t"," ","d","o","c","u","m","e","n","t","s","."," ",
                                      "P","l","e","a","s","e"," ","c","h","e","c","k"," ","y",
                                      "o","u","r"," ","d","a","t","a"," ","a","n","d"," ","t",
                                      "r","y"," ","a","g","a","i","n",".">>
                               ELSE IngestError(documents, added),
                    documents_added |-> IF ok THEN added.value ELSE 0,
                    entries_before |-> Cardinality(DOMAIN cache)]
        /\ ops' = ops + 1
        /\ UNCHANGED <<cfg, ttl, now, threads>>

\* POST /ingest: ingest_documents.  The HTTPException(400) for an empty list
\* is raised inside the try block and leaves as a 500; the ValueError of
\* add_documents gives 400.  The cache is cleared after add_documents
\* returned.  entries_before: the number of cache entries when the call
\* arrived.
IngestEndpoint(documents, store_ok) ==
    LET added == add_documents(collection, documents, store_ok)
        ok == documents # << >> /\ ~added.raised
    IN  /\ ops < MaxOps
        /\ Len(collection) + Len(documents) <= MaxDocs
        /\ collection' = (IF documents = << >> THEN collection ELSE added.collection)
        /\ cache' = (IF ok THEN clear(cache) ELSE cache)
        /\ last' = [op |-> "ingest",
                    documents |-> documents,
                    status |-> IF documents = << >> THEN 500 ELSE IF added.raised THEN 400 ELSE 200,
                    error |-> IngestError(documents, added),
                    detail |-> IF documents = << >>
                               THEN \* 'Failed to ingest documents. Please check your data and try again.'
                                    <<"F","a","i","l","e","d"," ","t","o"," ","i","n","g","e",
                                      "s","t"," ","d","o","c","u","m","e","n","t","s","."," ",
                                      "P","l","e","a","s","e"," ","c","h","e","c","k"," ","y",
                                      "o","u","r"," ","d","a","t","a"," ","a","n","d"," ","t",
                                      "r","y"," ","a","g","a","i","n",".">>
                               ELSE IngestError(documents, added),
                    documents_added |-> IF ok THEN added.value ELSE 0,
                    entries_before |-> Cardinality(DOMAIN cache)]
        /\ ops' = ops + 1
        /\ UNCHANGED <<cfg, ttl, now, threads>>

\* GET /cache/stats: get_cache_stats
CacheStatsEndpoint ==
    /\ ops < MaxOps
    /\ last' = [op |-> "cache_stats",
                status |-> 200,
                error |-> None,
                detail |-> None,
                stats |-> get_stats(cache, cfg.ENABLE_CACHE, ttl, now)]
    /\ ops' = ops + 1
    /\ UNCHANGED <<cfg, ttl, now, cache, collection, threads>>

\* POST /cache/clear: clear_cache
CacheClearEndpoint ==
    /\ ops < MaxOps
    /\ cache' = clear(cache)
    /\ last' = [op |-> "cache_clear", status |-> 200, error |-> None, detail |-> None]
    /\ ops' = ops + 1
    /\ UNCHANGED <<cfg, ttl, now, collection, threads>>

\* GET /stats: get_stats.  count_ok is the outcome of collection.count() in
\* get_collection_stats.
StatsEndpoint(count_ok) ==
    /\ ops < MaxOps
    /\ last' = [op |-> "stats",
                status |-> IF count_ok THEN 200 ELSE 500,
                error |-> IF count_ok THEN None ELSE StoreError,
                detail |-> IF count_ok THEN None
                           ELSE \* 'Error getting stats: ' and str(e)
                                <<"E","r","r","o","r"," ","g","e","t","t","i","n","g"," ","s",
                                  "t","a","t","s",":"," ">>
                                \o StoreError,
                total_documents |-> IF count_ok THEN Len(collection) ELSE 0]
    /\ ops' = ops + 1
    /\ UNCHANGED <<cfg, ttl, now, cache, collection, threads>>

\* GET /health: health_check, which answers 200 also when
\* get_collection_stats raises, with the status "degraded" and a message
\* that ends with str(e).
HealthEndpoint(count_ok) ==
    /\ ops < MaxOps
    /\ last' = [op |-> "health",
                status |-> 200,
                error |-> IF count_ok THEN None ELSE StoreError,
                detail |-> None,
                health |-> IF count_ok THEN "healthy" ELSE "degraded",
                message |-> IF count_ok
                            THEN \* 'NVIDIA Doc Navigator API is running'
                                 <<"N","V","I","D","I","A"," ","D","o","c"," ","N","a","v","i",
                                   "g","a","t","o","r"," ","A","P","I"," ","i","s"," ","r","u",
                                   "n","n","i","n","g">>
                            ELSE \* 'API is running but some services may be unavailable: ' and str(e)
                                 <<"A","P","I"," ","i","s"," ","r","u","n","n","i","n","g"," ",
                                   "b","u","t"," ","s","o","m","e"," ","s","e","r","v","i","c",
                                   "e","s"," ","m","a","y"," ","b","e"," ","u","n","a","v","a",
                                   "i","l","a","b","l","e",":"," ">>
                                 \o StoreError,
                documents_count |-> IF count_ok THEN Len(collection) ELSE 0]
    /\ ops' = ops + 1
    /\ UNCHANGED <<cfg, ttl, now, cache, collection, threads>>

Next ==
    \/ Tick
    \/ \E request \in Requests :
           \E done \in Attempts(cfg, request, collection) : QueryEndpoint(request, done)
    \/ \E documents \in SeqsUpTo(Docs, 1), store_ok \in BOOLEAN :
           IngestEndpoint(documents, store_ok)
    \/ CacheStatsEndpoint
    \/ CacheClearEndpoint
    \/ \E count_ok \in BOOLEAN : StatsEndpoint(count_ok)
    \/ \E count_ok \in BOOLEAN : HealthEndpoint(count_ok)

Spec == Init /\ [][Next]_vars

----------------------------------------------------------------------------
(* The CacheService on its own (services/cache.py): its methods called one *)
(* at a time, each call running to its end (specification SpecCache).      *)

\* The (query, params) pairs the methods are called with
CacheInputs ==
    {[query |-> Q_MigConfig, params |-> CacheParams(1, TRUE)],
     [query |-> Q_MigConfig, params |-> CacheParams(1, FALSE)]}

\* The cache with and without ENABLE_CACHE
CacheConfigs == {Config(TRUE, TRUE, "none"), Config(FALSE, TRUE, "none")}

InitCache ==
    /\ cfg \in CacheConfigs
    /\ ttl \in 1..MaxTTL
    /\ now = 0
    /\ cache = EmptyCache
    /\ collection = << >>
    /\ last = [op |-> "init"]
    /\ ops = 0
    /\ threads = << >>

\* cache_service.get(query, params).  found: whether the key was in the
\* cache when the call arrived; after: the call before this one; cleared:
\* the number of entries that call removed when it was a clear.
CacheGet(input) ==
    /\ ops < MaxCalls
    /\ \E outcome \in {get(cache, cfg.ENABLE_CACHE, ttl, now, input.query, input.params)} :
           /\ cache' = outcome.cache
           /\ last' = [op |-> "get",
                       input |-> input,
                       found |-> _get_cache_key(input.query, input.params) \in DOMAIN cache,
                       returned |-> outcome.returned,
                       after |-> last.op,
                       cleared |-> IF last.op = "clear" THEN last.entries_before ELSE 0,
                       t |-> now]
    /\ ops' = ops + 1
    /\ UNCHANGED <<cfg, ttl, now, collection, threads>>

\* cache_service.set(query, data, params)
CacheSet(input, data) ==
    /\ ops < MaxCalls
    /\ cache' = set(cache, cfg.ENABLE_CACHE, now, input.query, data, input.params)
    /\ last' = [op |-> "set", input |-> input, data |-> data, t |-> now]
    /\ ops' = ops + 1
    /\ UNCHANGED <<cfg, ttl, now, collection, threads>>

\* cache_service.clear().  entries_before: len(self.cache) when the call
\* arrived.
CacheClear ==
    /\ ops < MaxCalls
    /\ cache' = clear(cache)
    /\ last' = [op |-> "clear", entries_before |-> Cardinality(DOMAIN cache), t |-> now]
    /\ ops' = ops + 1
    /\ UNCHANGED <<cfg, ttl, now, collection, threads>>

\* cache_service.get_stats()
CacheGetStats ==
    /\ ops < MaxCalls
    /\ last' = [op |-> "get_stats",
                stats |-> get_stats(cache, cfg.ENABLE_CACHE, ttl, now),
                t |-> now]
    /\ ops' = ops + 1
    /\ UNCHANGED <<cfg, ttl, now, cache, collection, threads>>

NextCache ==
    \/ Tick
    \/ \E input \in CacheInputs : CacheGet(input)
    \/ \E input \in CacheInputs, data \in {<<"a">>, <<"b">>} : CacheSet(input, data)
    \/ CacheClear
    \/ CacheGetStats

SpecCache == InitCache /\ [][NextCache]_vars

\* A step that is a call of a CacheService method
CacheStep(op) == ops' = ops + 1 /\ last'.op = op

\* C4: a get of an entry's key made when now - timestamp > TTL returns
\* absent and removes that entry (and no other) from the storage; a get made
\* when the age is at most TTL returns the stored data and leaves the
\* storage as it is.
C4_ExpiredEntryEvictedOnGet ==
    [][(CacheStep("get") /\ _get_cache_key(last'.input.query, last'.input.params) \in DOMAIN cache)
       => IF now - cache[_get_cache_key(last'.input.query, last'.input.params)].timestamp > ttl
          THEN /\ last'.returned = Absent
               /\ DOMAIN cache' = (DOMAIN cache) \ {_get_cache_key(last'.input.query, last'.input.params)}
               /\ \A k \in DOMAIN cache' : cache'[k] = cache[k]
          ELSE /\ last'.returned = Some(cache[_get_cache_key(last'.input.query, last'.input.params)].data)
               /\ cache' = cache]_vars

\* A get that found its entry expired and removed it, another entry staying
C4_Witness ==
    /\ last.op = "get"
    /\ last.found
    /\ last.returned = Absent
    /\ _get_cache_key(last.input.query, last.input.params) \notin DOMAIN cache
    /\ cache # EmptyCache

\* C6: clear() leaves no entry, whatever calls came before: a get for any
\* key then returns absent, and so does the get that comes next.
C6_ClearThenGetAbsent ==
    [][/\ CacheStep("clear")
          => /\ cache' = EmptyCache
             /\ \A input \in CacheInputs :
                    get(cache', cfg.ENABLE_CACHE, ttl, now, input.query, input.params
                       ).returned = Absent
       /\ (CacheStep("get") /\ last.op = "clear")
          => last'.returned = Absent /\ cache' = EmptyCache]_vars

\* A get that came right after a clear of a cache that held an entry found
\* nothing
C6_Witness ==
    /\ last.op = "get"
    /\ last.after = "clear"
    /\ last.cleared > 0
    /\ last.returned = Absent
    /\ cache = EmptyCache

\* C7: with the cache disabled every get returns absent, every set leaves
\* the storage unchanged (it stays empty) and get_stats reports enabled =
\* FALSE.
C7_DisabledCacheIsInert ==
    [][(~cfg.ENABLE_CACHE /\ ops' = ops + 1)
       => /\ cache' = cache
          /\ cache = EmptyCache
          /\ last'.op = "get" => last'.returned = Absent
          /\ last'.op = "get_stats"
             => last'.stats.enabled = FALSE /\ last'.stats.total_entries = 0]_vars

\* A set made with the cache disabled, after which the storage is empty
C7_Witness ==
    /\ ~cfg.ENABLE_CACHE
    /\ last.op = "set"
    /\ ops > 1
    /\ cache = EmptyCache

----------------------------------------------------------------------------
(* The cache key as a function of the request (specification SpecKey).     *)

\* The requests whose keys are compared
KeyInputs ==
    [query : {Q_MigConfig, Q_How, <<"a", ":", "b", "}">>}, n_results : {1, 2, 11}, include_code : BOOLEAN]

\* The params RAGAgent.query passes for a request
ParamsOf(a) == CacheParams(a.n_results, a.include_code)

InitKey ==
    /\ cfg = Config(TRUE, TRUE, "none")
    /\ ttl \in 1..MaxTTL
    /\ now = 0
    /\ cache = EmptyCache
    /\ collection = << >>
    /\ last = [op |-> "init"]
    /\ ops = 0
    /\ threads = << >>

\* _get_cache_key on two requests.  crossed: what a get for b returns from a
\* cache in which only a result for a was set.
Fingerprint(a, b) ==
    /\ ops < MaxCalls
    /\ last' = [op |-> "_get_cache_key",
                a |-> a,
                b |-> b,
                key_a |-> _get_cache_key(a.query, ParamsOf(a)),
                key_b |-> _get_cache_key(b.query, ParamsOf(b)),
                crossed |-> get(set(EmptyCache, TRUE, now, a.query, <<"a">>, ParamsOf(a)),
                                TRUE, ttl, now, b.query, ParamsOf(b)).returned]
    /\ ops' = ops + 1
    /\ UNCHANGED <<cfg, ttl, now, cache, collection, threads>>

NextKey == \E a, b \in KeyInputs : Fingerprint(a, b)

SpecKey == InitKey /\ [][NextKey]_vars

\* C5: two requests with the same text, result count and include-examples
\* flag have the same cache key, and two requests that differ in the result
\* count or in the flag have different keys, so that a result set for one is
\* not returned by a get for the other.  (md5 is taken to be collision-free.)
C5_KeyIsFunctionOfRequest ==
    last.op = "_get_cache_key"
    => /\ last.a = last.b => (last.key_a = last.key_b /\ last.crossed = Some(<<"a">>))
       /\ (last.a.n_results # last.b.n_results \/ last.a.include_code # last.b.include_code)
          => (last.key_a # last.key_b /\ last.crossed = Absent)

\* Two requests of the same text and result count that differ in the flag
C5_Witness ==
    /\ last.op = "_get_cache_key"
    /\ last.a.query = last.b.query
    /\ last.a.n_results = last.b.n_results
    /\ last.a.include_code # last.b.include_code
    /\ last.key_a # last.key_b
    /\ last.crossed = Absent

----------------------------------------------------------------------------
(* The CacheService called from several threads (specification SpecConc):  *)
(* a get runs statement by statement, and between two of its statements    *)
(* another thread may run.  CacheService holds no lock.  set and clear      *)
(* change the dict in one statement.                                        *)

Threads == 1..NumThreads

\* A thread that is in no call
Idle == [pc |-> "idle"]

InitConc ==
    /\ cfg \in CacheConfigs
    /\ ttl \in 1..MaxTTL
    /\ now = 0
    /\ cache = EmptyCache
    /\ collection = << >>
    /\ last = [op |-> "init"]
    /\ ops = 0
    /\ threads = [t \in Threads |-> Idle]

\* The call of thread t ends: it returned a value, or raised KeyError
GetEnds(t, outcome, returned) ==
    /\ threads' = [threads EXCEPT ![t] = Idle]
    /\ last' = [op |-> "get", thread |-> t, outcome |-> outcome, returned |-> returned]

\* get, lines 46 to 49: the enabled test and the key
GetCall(t, input) ==
    /\ ops < MaxCalls
    /\ threads[t] = Idle
    /\ ops' = ops + 1
    /\ IF ~cfg.ENABLE_CACHE
       THEN GetEnds(t, "returned", Absent)
       ELSE /\ threads' = [threads EXCEPT ![t] = [pc |-> "get_member", key |-> _get_cache_key(input.query, input.params)]]
            /\ last' = last
    /\ UNCHANGED <<cfg, ttl, now, cache, collection>>

\* get, lines 51 to 53: the membership test
GetMember(t) ==
    /\ threads[t].pc = "get_member"
    /\ IF threads[t].key \notin DOMAIN cache
       THEN GetEnds(t, "returned", Absent)
       ELSE /\ threads' = [threads EXCEPT ![t].pc = "get_read"]
            /\ last' = last
    /\ UNCHANGED <<cfg, ttl, now, cache, collection, ops>>

\* get, line 55: entry = self.cache[cache_key], a KeyError when the key is
\* no longer there
GetRead(t) ==
    /\ threads[t].pc = "get_read"
    /\ IF threads[t].key \notin DOMAIN cache
       THEN GetEnds(t, "KeyError", Absent)
       ELSE /\ threads' = [threads EXCEPT ![t] = [pc |-> "get_expiry",
                                                  key |-> threads[t].key,
                                                  entry |-> cache[threads[t].key]]]
            /\ last' = last
    /\ UNCHANGED <<cfg, ttl, now, cache, collection, ops>>

\* get, lines 58 and 63 to 64: the expiry test, and the hit
GetExpiry(t) ==
    /\ threads[t].pc = "get_expiry"
    /\ IF Expired(threads[t].entry, ttl, now)
       THEN /\ threads' = [threads EXCEPT ![t].pc = "get_del"]
            /\ last' = last
       ELSE GetEnds(t, "returned", Some(threads[t].entry.data))
    /\ UNCHANGED <<cfg, ttl, now, cache, collection, ops>>

\* get, lines 60 to 61: del self.cache[cache_key], a KeyError when the key
\* is no longer there
GetDelete(t) ==
    /\ threads[t].pc = "get_del"
    /\ IF threads[t].key \notin DOMAIN cache
       THEN GetEnds(t, "KeyError", Absent) /\ cache' = cache
       ELSE GetEnds(t, "returned", Absent) /\ cache' = Delete(cache, threads[t].key)
    /\ UNCHANGED <<cfg, ttl, now, collection, ops>>

\* set, called by thread t
SetCall(t, input, data) ==
    /\ ops < MaxCalls
    /\ threads[t] = Idle
    /\ cache' = set(cache, cfg.ENABLE_CACHE, now, input.query, data, input.params)
    /\ last' = [op |-> "set", thread |-> t, outcome |-> "returned"]
    /\ ops' = ops + 1
    /\ UNCHANGED <<cfg, ttl, now, collection, threads>>

\* clear, called by thread t
ClearCall(t) ==
    /\ ops < MaxCalls
    /\ threads[t] = Idle
    /\ cache' = clear(cache)
    /\ last' = [op |-> "clear", thread |-> t, outcome |-> "returned"]
    /\ ops' = ops + 1
    /\ UNCHANGED <<cfg, ttl, now, collection, threads>>

NextConc ==
    \/ Tick
    \/ \E t \in Threads :
           \/ \E input \in CacheInputs : GetCall(t, input)
           \/ GetMember(t)
           \/ GetRead(t)
           \/ GetExpiry(t)
           \/ GetDelete(t)
           \/ \E input \in CacheInputs : SetCall(t, input, <<"a">>)
           \/ ClearCall(t)

SpecConc == InitConc /\ [][NextConc]_vars

\* C8: whatever the interleaving of the get, set and clear calls of the
\* threads, no call fails: none ends in a KeyError.
C8_NoCallFails == last.op \in {"get", "set", "clear"} => last.outcome = "returned"

----------------------------------------------------------------------------
(* Properties of the service (specification Spec).                         *)

\* A step that is a call of query_endpoint
QueryStep == ops' = ops + 1 /\ last'.op = "query"

\* The input check of a request under the configuration
InputCheck(request) ==
    InputCheckTable[[enabled |-> cfg.ENABLE_GUARDRAILS, query |-> request.query]]

\* The number of times a stage occurs among the stages of a call
Count(stages, stage) == Cardinality({i \in 1..Len(stages) : stages[i] = stage})

\* C1: a query the input check disallows gets at once the terminal result
\* (the rejection message, query_type "blocked", confidence 1.0, no sources,
\* the guardrails flag set); the call runs no stage but the input check, so
\* neither the cache probe, the classifier nor the retriever, and leaves the
\* cache as it was.
C1_BlockedQueryIsTerminal ==
    [][(QueryStep /\ last'.called /\ ~InputCheck(last'.request).is_allowed)
       => /\ ~last'.raised
          /\ last'.result.answer = InputCheck(last'.request).msg
          /\ last'.result.answer \in {JailbreakMessage, OffTopicMessage}
          /\ last'.result.query_type = "blocked"
          /\ last'.result.confidence = [num |-> 1, den |-> 1]
          /\ last'.result.sources = << >>
          /\ last'.result.guardrails_triggered
          /\ last'.stages = <<"check_input">>
          /\ cache' = cache]_vars

\* A blocked query answered while the cache holds an entry
C1_Witness ==
    /\ last.op = "query"
    /\ last.called
    /\ last.result.query_type = "blocked"
    /\ last.stages = <<"check_input">>
    /\ cache # EmptyCache

\* C2: with the cache enabled, when a request is repeated right after a call
\* of the same request that was allowed, succeeded and stored its result,
\* and no more than TTL has elapsed, the second call is a cache hit: it
\* returns the first call's result unchanged, runs only the input check and
\* the cache probe, leaves the cache as it is, and over the two calls the
\* retriever, the classifier, the composer and the output check ran once.
C2_RepeatIsCacheHit ==
    [][(/\ QueryStep
        /\ cfg.ENABLE_CACHE
        /\ AllowedAndSuccessful(last)
        /\ Ran(last.stages, "cache_set")
        /\ last'.request = last.request
        /\ now - last.t <= ttl)
       => /\ ~last'.raised
          /\ last'.result = last.result
          /\ last'.stages = <<"check_input", "cache_get">>
          /\ cache' = cache
          /\ \A stage \in {"search", "route_query", "check_output"} :
                 Count(last.stages \o last'.stages, stage) = 1
          /\ Count(last.stages \o last'.stages, "generate_mock")
             + Count(last.stages \o last'.stages, "generate_llm") = 1]_vars

\* A repeated request answered from the cache some time after the first call
C2_Witness ==
    /\ last.op = "query"
    /\ last.repeated
    /\ last.prev_t < last.t
    /\ last.stages = <<"check_input", "cache_get">>
    /\ last.status = 200

\* C3: when the ingest endpoint has added documents the cache holds no entry:
\* a get for any request finds nothing, and an allowed query that comes next
\* runs the retrieval again.
C3_IngestionClearsCache ==
    [][/\ (ops' = ops + 1 /\ last'.op = "ingest" /\ last'.documents_added > 0)
          => /\ cache' = EmptyCache
             /\ \A request \in Requests :
                    get(cache', cfg.ENABLE_CACHE, ttl, now, request.query,
                        CacheParams(request.n_results, request.include_code_examples)
                       ).returned = Absent
       /\ (/\ QueryStep
           /\ last.op = "ingest"
           /\ last.documents_added > 0
           /\ last'.called
           /\ InputCheck(last'.request).is_allowed)
          => Ran(last'.stages, "search")]_vars

\* Documents were added while the cache held an entry
C3_Witness ==
    /\ last.op = "ingest"
    /\ last.documents_added > 0
    /\ last.entries_before > 0
    /\ cache = EmptyCache

\* C9: when the code-example lookup of a query fails, the failure shows as
\* no code examples, the compatibility check, the debug-flow lookup, the
\* composer and the output check still run, and RAGAgent.query returns a
\* result.  (The compatibility check and the debug-flow lookup have no
\* failing path on a text.)
C9_AuxiliaryFailuresAbsorbed ==
    (last.op = "query" /\ last.failed.http)
    => /\ ~last.raised
       /\ last.status # 500
       /\ last.result.code_examples = << >>
       /\ last.result.query_type # "blocked"
       /\ \A stage \in {"check_compatibility", "get_debug_flow", "check_output", "cache_set"} :
              Ran(last.stages, stage)
       /\ Ran(last.stages, "generate_mock") \/ Ran(last.stages, "generate_llm")

\* A query whose code-example lookup failed and which was answered
C9_Witness ==
    /\ last.op = "query"
    /\ last.failed.http
    /\ last.status = 200
    /\ Len(last.result.answer) > 0

\* C10: when the retriever's search fails, RAGAgent.query raises, the endpoint
\* answers 500, no result (so no no-documents answer) is returned and nothing
\* is stored in the cache; a search that finds no document is a normal
\* result: the no-documents answer, status 200.
C10_RetrieverFailureSurfaces ==
    [][QueryStep
       => /\ last'.failed.chroma
             => /\ last'.raised
                /\ last'.status = 500
                /\ last'.result = NoResult
                /\ ~Ran(last'.stages, "cache_set")
                /\ _get_cache_key(last'.request.query,
                                  CacheParams(last'.request.n_results,
                                              last'.request.include_code_examples))
                       \notin DOMAIN cache'
          /\ (/\ Ran(last'.stages, "search")
              /\ ~last'.failed.chroma
              /\ collection = << >>)
             => /\ ~last'.raised
                /\ last'.status = 200
                /\ last'.result.sources = << >>
                /\ cfg.llm_provider = "none"
                   => StartsWith(last'.result.answer, NoInfoAnswer)]_vars

\* A query whose retrieval failed while the cache held another entry
C10_Witness ==
    /\ last.op = "query"
    /\ last.failed.chroma
    /\ last.raised
    /\ last.status = 500
    /\ cache # EmptyCache

\* RAGAgent.query's steps 2 to 7 with an LLM beside the same steps with the
\* template strategy (use_llm False), under each outcome of the external
\* calls: for a configuration with an LLM, a request and a collection
FallbackTable ==
    [k \in [cfg : {c \in Configs : c.llm_provider # "none"}, request : Requests,
            collection : SeqsUpTo(Docs, MaxDocs)] |->
        {<<Attempt(k.cfg, k.request, env),
           Attempt(Config(k.cfg.ENABLE_CACHE, k.cfg.ENABLE_GUARDRAILS, "none"),
                   k.request, env)>> : env \in Envs(k.collection)}] @@ << >>

\* C11: when the LLM is configured and its invocation raises, the answer is
\* the template answer on the same documents, query type, code examples,
\* compatibility finding and debug flow (that is, the answer the template
\* strategy gives under the same outcomes of the external calls); the request
\* returns a result, which is output-checked and cached, with status 200.
C11_FallbackUsesSameFindings ==
    (last.op = "query" /\ last.failed.llm)
    => /\ ~last.raised
       /\ last.status = 200
       /\ Ran(last.stages, "check_output")
       /\ Ran(last.stages, "cache_set")
       /\ \A pair \in FallbackTable[[cfg |-> cfg, request |-> last.request,
                                     collection |-> collection]] :
              (~pair[1].raised /\ pair[1].failed = last.failed
                   /\ pair[1].result = last.result)
              => last.result.answer = pair[2].result.answer

\* C12, as stated: for an allowed query whose retrieval returns no document
\* the answer is the fixed no-relevant-information message and sources is
\* empty.
C12_NoDocumentsAnswerIsFixedMessage ==
    (last.op = "query" /\ last.called /\ ~last.raised /\ Ran(last.stages, "search") /\ collection = << >>)
    => /\ last.result.answer = NoInfoAnswer
       /\ last.result.sources = << >>

\* C12, amended: for an allowed query whose retrieval returns no document,
\* sources is empty and the status is 200; when the template composes the
\* answer (no LLM, or the LLM failed) the answer is the fixed message,
\* followed by the documentation reference when the guardrails are enabled;
\* when the LLM answers, the answer is its output-checked text.
C12_NoDocumentsAnswer ==
    (last.op = "query" /\ last.called /\ ~last.raised /\ Ran(last.stages, "search") /\ collection = << >>)
    => /\ last.result.sources = << >>
       /\ last.status = 200
       /\ IF cfg.llm_provider = "none" \/ last.failed.llm
          THEN /\ last.result.answer
                  = check_output(cfg.ENABLE_GUARDRAILS, NoInfoAnswer).response
               /\ StartsWith(last.result.answer, NoInfoAnswer)
               /\ Len(last.result.answer)
                  = Len(NoInfoAnswer) + (IF cfg.ENABLE_GUARDRAILS THEN Len(reference) ELSE 0)
          ELSE \E outcome \in LLMOutcomes :
                   /\ outcome.kind = "ok"
                   /\ last.result.answer
                      = check_output(cfg.ENABLE_GUARDRAILS, outcome.text).response

\* An allowed query answered over an empty collection with the fixed message
\* and the documentation reference
C12_Witness ==
    /\ last.op = "query"
    /\ last.called
    /\ ~last.raised
    /\ Ran(last.stages, "search")
    /\ collection = << >>
    /\ cfg.ENABLE_GUARDRAILS
    /\ last.result.answer = NoInfoAnswer \o reference
    /\ last.result.sources = << >>

\* C20: a request whose query is empty once stripped is rejected before
\* RAGAgent.query is called (no stage runs, the cache is unchanged) and is
\* answered with a client-side error, status 400.
C20_BlankQueryIsClientError ==
    [][(QueryStep /\ IsBlank(last'.request.query))
       => /\ ~last'.called
          /\ last'.stages = << >>
          /\ cache' = cache
          /\ last'.status = 400]_vars

----------------------------------------------------------------------------
(* The guardrails, the query router and the composition of the answer as   *)
(* functions of their arguments (specification SpecText): one call of      *)
(* check_input, check_output or route_query on a text made of at most      *)
(* MaxWords fragments, or one composition over at most MaxPassages         *)
(* retrieved passages.                                                     *)

\* The fragments of the texts: a blocked pattern in lower and in upper case,
\* allowed topics that are routing keywords too, a general term, routing
\* keywords that are no topics, a word that is none of these, a
\* hallucination pattern, the two documentation domains
Fragments ==
    {<<"s","e","c","r","e","t">>, <<"B","Y","P","A","S","S">>,
     <<"c","u","d","a">>, <<"M","I","G">>, <<"n","v","l","i","n","k">>,
     <<"h","o","w">>,
     <<"k","e","r","n","e","l">>, <<"p","r","o","f","i","l","i","n","g">>,
     <<"p","i","z","z","a">>, <<" ">>,
     <<"R","u","m","o","r","e","d">>,
     <<"d","o","c","s",".","n","v","i","d","i","a",".","c","o","m">>,
     <<"G","i","t","H","u","b",".","c","o","m","/","N","V","I","D","I","A">>}

\* The texts: the concatenations of at most MaxWords fragments
Texts == {Join(ws) : ws \in SeqsUpTo(Fragments, MaxWords)}

InitText ==
    /\ cfg \in {c \in Configs : c.ENABLE_CACHE /\ c.llm_provider = "none"}
    /\ ttl = 1
    /\ now = 0
    /\ cache = EmptyCache
    /\ collection = << >>
    /\ last = [op |-> "init"]
    /\ ops = 0
    /\ threads = << >>

\* guardrails_service.check_input(text)
CheckInput(text) ==
    /\ ops = 0
    /\ ops' = 1
    /\ last' = [op |-> "check_input", text |-> text,
                returned |-> check_input(cfg.ENABLE_GUARDRAILS, text)]
    /\ UNCHANGED <<cfg, ttl, now, cache, collection, threads>>

\* guardrails_service.check_output(text)
CheckOutput(text) ==
    /\ ops = 0
    /\ ops' = 1
    /\ last' = [op |-> "check_output", text |-> text,
                returned |-> check_output(cfg.ENABLE_GUARDRAILS, text)]
    /\ UNCHANGED <<cfg, ttl, now, cache, collection, threads>>

\* query_router.route_query(text)
RouteQuery(text) ==
    /\ ops = 0
    /\ ops' = 1
    /\ last' = [op |-> "route_query", text |-> text, returned |-> route_query(text)]
    /\ UNCHANGED <<cfg, ttl, now, cache, collection, threads>>

\* Steps 3 to 7 of RAGAgent.query on the passages the retriever returned,
\* without code examples: the lookups, the answer, the output check and the
\* result
ComposeAnswer(user_query, retrieved_docs) ==
    /\ ops = 0
    /\ ops' = 1
    /\ last' = [op |-> "compose", text |-> user_query, docs |-> retrieved_docs,
                returned |-> AfterCodeExamples(cfg, user_query, route_query(user_query),
                                               retrieved_docs, Returned(<< >>),
                                               [llm |-> [kind |-> "error"]],
                                               UptoSearch).result]
    /\ UNCHANGED <<cfg, ttl, now, cache, collection, threads>>

NextText ==
    \/ \E text \in Texts :
           \/ CheckInput(text)
           \/ CheckOutput(text)
           \/ RouteQuery(text)
    \/ \E user_query \in {Q_MigConfig, Q_How}, retrieved_docs \in SeqsUpTo(Docs, MaxPassages) :
           ComposeAnswer(user_query, retrieved_docs)

SpecText == InitText /\ [][NextText]_vars

\* Whether the lower-cased text holds one of the patterns
Holds(patterns, text) == ContainsAny(patterns, lower(text))

\* C13: with the guardrails enabled, a text whose lower-cased form holds a
\* blocked pattern is rejected by check_input with the jailbreak message,
\* whatever allowed topics and general terms it holds besides.
C13_BlockedPhraseTakesPrecedence ==
    (last.op = "check_input" /\ cfg.ENABLE_GUARDRAILS /\ Holds(BLOCKED_PATTERNS, last.text))
    => /\ ~last.returned.is_allowed
       /\ last.returned.msg = JailbreakMessage

\* A text with a blocked pattern and an allowed topic, rejected as a jailbreak
C13_Witness ==
    /\ last.op = "check_input"
    /\ cfg.ENABLE_GUARDRAILS
    /\ Holds(BLOCKED_PATTERNS, last.text)
    /\ Holds(ALLOWED_TOPICS, last.text)
    /\ last.returned.msg = JailbreakMessage

EndsWith(s, p) == Len(p) <= Len(s) /\ SubSeq(s, Len(s) - Len(p) + 1, Len(s)) = p

\* C15: check_output reports every answer as valid and returns the answer
\* with zero or more of the two fixed notices appended: the answer is a
\* prefix of the returned text, unmodified, and what follows it is nothing,
\* the disclaimer, the reference, or the disclaimer and the reference.
C15_CheckOutputOnlyAugments ==
    last.op = "check_output"
    => /\ last.returned.is_valid
       /\ StartsWith(last.returned.response, last.text)
       /\ last.returned.response
              \in {last.text, last.text \o disclaimer, last.text \o reference,
                   last.text \o disclaimer \o reference}

\* An answer with a hallucination pattern, returned with the disclaimer
\* appended
C15_Witness ==
    /\ last.op = "check_output"
    /\ Holds(hallucination_patterns, last.text)
    /\ last.returned.response = last.text \o disclaimer
    /\ last.returned.is_valid

\* Whether an answer refers to a documentation domain (the test of
\* check_output: docs.nvidia.com as written, github.com/nvidia in any case)
RefersToDocs(text) == Contains(DocsDomain, text) \/ Holds(<<GithubDomain>>, text)

\* C16: with the guardrails enabled, check_output appends the documentation
\* reference to every answer that refers to no documentation domain, and
\* the disclaimer to every answer that holds a hallucination pattern, each
\* rule whatever the other does.
C16_OutputRulesApplyIndependently ==
    (last.op = "check_output" /\ cfg.ENABLE_GUARDRAILS)
    => /\ ~RefersToDocs(last.text) => EndsWith(last.returned.response, reference)
       /\ Holds(hallucination_patterns, last.text)
          => StartsWith(last.returned.response, last.text \o disclaimer)

\* The number of keywords of a query type that the lower-cased text holds
RawScore(query_type, text) ==
    Cardinality({i \in 1..Len(routing_patterns(query_type)) :
                    Contains(routing_patterns(query_type)[i], lower(text))})

\* The query types of routing_patterns
RoutedTypes == {RoutingOrder[i] : i \in 1..Len(RoutingOrder)}

\* C17: a text whose lower-cased form holds no keyword of any query type is
\* routed to GENERIC with confidence 0.0, no matched keywords and the tags
\* general, nvidia.
C17_NoKeywordIsGeneric ==
    (last.op = "route_query" /\ \A qt \in RoutedTypes : RawScore(qt, last.text) = 0)
    => /\ last.returned.query_type = "generic"
       /\ last.returned.confidence = [num |-> 0, den |-> 1]
       /\ last.returned.matched_keywords = << >>
       /\ last.returned.suggested_tags = <<"general", "nvidia">>

\* A text of a general term and a word that is no keyword, routed to GENERIC
C17_Witness ==
    /\ last.op = "route_query"
    /\ Len(last.text) > 5
    /\ Holds(general_terms, last.text)
    /\ \A qt \in RoutedTypes : RawScore(qt, last.text) = 0
    /\ last.returned.query_type = "generic"

\* C18: the confidence route_query returns lies in [0.0, 1.0] (as a fraction
\* num/den: den > 0 and 0 <= num <= den).
C18_ConfidenceInUnitInterval ==
    last.op = "route_query"
    => /\ last.returned.confidence.den > 0
       /\ last.returned.confidence.num >= 0
       /\ last.returned.confidence.num <= last.returned.confidence.den

\* A text that holds two keywords of the query type it is routed to, with a
\* confidence strictly between 0 and 1
C18_Witness ==
    /\ last.op = "route_query"
    /\ last.returned.confidence.num >= 2
    /\ last.returned.confidence.num < last.returned.confidence.den

\* The position of a query type in routing_patterns
Declared(query_type) == CHOOSE i \in 1..Len(RoutingOrder) : RoutingOrder[i] = query_type

----------------------------------------------------------------------------
(* Properties of the order of the stages and of the cache entries          *)
(* (specification Spec).                                                   *)

\* The cache probe of a request in the cache c
Probe(c, request) ==
    get(c, cfg.ENABLE_CACHE, ttl, now, request.query,
        CacheParams(request.n_results, request.include_code_examples))

\* C21: in an allowed request that misses the cache the stages run in the
\* order input check, cache probe, classification, retrieval, auxiliary
\* lookups, composition, output check, cache store, each at most once; a
\* request that completes ran every one of them (the code-example lookup
\* only when examples are wanted for a classified query), the output check
\* exactly once, and its result carries the output-checked answer and is
\* the value the cache then holds for the request.
C21_StagesInFixedOrder ==
    [][LET StageRank(stage) ==
               CASE stage = "check_input" -> 1
                 [] stage = "cache_get" -> 2
                 [] stage = "route_query" -> 3
                 [] stage = "search" -> 4
                 [] stage = "code_examples" -> 5
                 [] stage = "check_compatibility" -> 6
                 [] stage = "get_debug_flow" -> 7
                 [] stage \in {"generate_llm", "generate_mock"} -> 8
                 [] stage = "check_output" -> 9
                 [] stage = "cache_set" -> 10
       IN
       (/\ QueryStep
        /\ last'.called
        /\ InputCheck(last'.request).is_allowed
        /\ ~Probe(cache, last'.request).returned.some)
       => /\ \A i \in 1..(Len(last'.stages) - 1) :
                 StageRank(last'.stages[i]) < StageRank(last'.stages[i + 1])
          /\ ~last'.raised
             => /\ {StageRank(last'.stages[i]) : i \in 1..Len(last'.stages)} \ {5}
                       = (1..10) \ {5}
                /\ Count(last'.stages, "check_output") = 1
                /\ Ran(last'.stages, "code_examples")
                       <=> (last'.request.include_code_examples
                            /\ last'.result.query_type # GENERIC)
                /\ cfg.ENABLE_GUARDRAILS => RefersToDocs(last'.result.answer)
                /\ cfg.ENABLE_CACHE
                       => Probe(cache', last'.request).returned = Some(last'.result)]_vars

\* An allowed request that missed the cache, looked code examples up, and
\* completed with an answer the output check extended by the reference
C21_Witness ==
    /\ last.op = "query"
    /\ last.called
    /\ ~last.raised
    /\ cfg.ENABLE_GUARDRAILS
    /\ cfg.ENABLE_CACHE
    /\ Ran(last.stages, "code_examples")
    /\ Ran(last.stages, "cache_set")
    /\ EndsWith(last.result.answer, reference)
    /\ Probe(cache, last.request).returned = Some(last.result)

\* C22: the cache gets a new entry, or a new value for an entry, only in a
\* call of RAGAgent.query that the input check allowed, that missed the
\* cache and that ran every step through the output check without raising;
\* the entry is the one of that request's key and its data is the result the
\* call returned.  Hence a blocked call and a call in which a step raised
\* leave every entry as it was (the probe of an allowed call may evict the
\* expired entry of its own key).
C22_EntriesComeFromCompletedRequests ==
    [][/\ \A k \in DOMAIN cache' :
              (k \notin DOMAIN cache \/ cache'[k] # cache[k])
              => /\ QueryStep
                 /\ last'.called
                 /\ InputCheck(last'.request).is_allowed
                 /\ ~Probe(cache, last'.request).returned.some
                 /\ ~last'.raised
                 /\ Ran(last'.stages, "check_output")
                 /\ k = _get_cache_key(last'.request.query,
                                       CacheParams(last'.request.n_results,
                                                   last'.request.include_code_examples))
                 /\ cache'[k] = [data |-> last'.result, timestamp |-> now]
       /\ (QueryStep /\ last'.called
           /\ (last'.raised \/ ~InputCheck(last'.request).is_allowed))
          => \A k \in DOMAIN cache' : k \in DOMAIN cache /\ cache'[k] = cache[k]]_vars

\* A call in which a step raised, made while the cache holds the entry an
\* earlier call stored: the cache still holds it
C22_Witness ==
    /\ last.op = "query"
    /\ last.called
    /\ last.raised
    /\ ~Ran(last.stages, "cache_set")
    /\ cache # EmptyCache

----------------------------------------------------------------------------
(* Properties of the composition and of the router (specification          *)
(* SpecText).                                                              *)

\* The excerpt line of the i-th passage in the template answer
Excerpt(i, doc) == str_int(i) \o <<".", " ">> \o doc.content \o <<"\n">>

\* C23: the sources of a result are the first min(3, n) of the n retrieved
\* passages, in retrieval order, and the template answer excerpts the first
\* min(2, n) passages in that order, numbered from 1, and no further one.
C23_RetrievalOrderPreserved ==
    last.op = "compose"
    => /\ Len(last.returned.sources) = Min(3, Len(last.docs))
       /\ \A i \in 1..Len(last.returned.sources) :
              /\ last.returned.sources[i].title = last.docs[i].metadata.title
              /\ last.returned.sources[i].url = last.docs[i].metadata.url
       /\ Len(last.docs) = 1
          => Contains(<<":", "*", "*", "\n">> \o Excerpt(1, last.docs[1]) \o <<"\n", "*">>,
                      last.returned.answer)
       /\ Len(last.docs) >= 2
          => Contains(<<":", "*", "*", "\n">> \o Excerpt(1, last.docs[1])
                          \o Excerpt(2, last.docs[2]) \o <<"\n", "*">>,
                      last.returned.answer)

\* Four passages retrieved, the first two different and the last two unlike
\* the first two: three sources, two excerpts
C23_Witness ==
    /\ last.op = "compose"
    /\ Len(last.docs) = 4
    /\ last.docs[1] # last.docs[2]
    /\ last.docs[3] # last.docs[1]
    /\ last.docs[4] # last.docs[2]
    /\ Len(last.returned.sources) = 3
    /\ Contains(Excerpt(2, last.docs[2]), last.returned.answer)

\* C24: for a text that some query type matches, the confidence is the raw
\* score of the returned query type over the number of its keywords (at
\* most 1), and matched_keywords lists exactly the keywords of that query
\* type that the lower-cased text holds, in the order of routing_patterns.
C24_ConfidenceIsScoreOverKeywords ==
    (last.op = "route_query" /\ \E qt \in RoutedTypes : RawScore(qt, last.text) > 0)
    => LET qt == last.returned.query_type
           keywords == routing_patterns(qt)
           matched == last.returned.matched_keywords
       IN  /\ qt \in RoutedTypes
           /\ last.returned.confidence.num * Len(keywords)
                  = RawScore(qt, last.text) * last.returned.confidence.den
           /\ last.returned.confidence.num <= last.returned.confidence.den
           /\ Len(matched) = RawScore(qt, last.text)
           /\ \E at \in [1..Len(matched) -> 1..Len(keywords)] :
                  /\ \A i \in 1..Len(matched) :
                         /\ keywords[at[i]] = matched[i]
                         /\ Contains(matched[i], lower(last.text))
                  /\ \A i, j \in 1..Len(matched) : i < j => at[i] < at[j]

\* A text that holds two keywords of the query type it is routed to: two
\* matched keywords, a confidence of two over the number of keywords
C24_Witness ==
    /\ last.op = "route_query"
    /\ Len(last.returned.matched_keywords) = 2
    /\ last.returned.matched_keywords[1] # last.returned.matched_keywords[2]
    /\ last.returned.confidence.num = 2
    /\ last.returned.confidence.den = Len(routing_patterns(last.returned.query_type))
    /\ last.returned.confidence.den > 2

----------------------------------------------------------------------------
(* Properties of the error responses (specification Spec).                 *)

\* C25: every response of an endpoint with a server-side error status
\* carries a detail in which the message of the exception that was caught
\* does not occur.
C25_ServerErrorsAreGeneric ==
    (last.op \in {"query", "ingest", "stats", "cache_stats", "cache_clear", "health"}
     /\ last.status >= 500)
    => /\ last.error # None
       /\ last.detail # None
       /\ ~Contains(last.error, last.detail)
       /\ ~Contains(StoreError, last.detail)

----------------------------------------------------------------------------
(* A query and an ingestion that run concurrently (specification           *)
(* SpecIngest): one call of RAGAgent.query and one call of ingest_documents,*)
(* each in its own thread.  Neither takes a lock: the other thread may run *)
(* between the retrieval of the query and its cache store, and between     *)
(* add_documents and the clear of the ingestion.  threads.query.basis is   *)
(* the collection the retrieval of the query read.                         *)

InitIngest ==
    /\ cfg \in Configs
    /\ ttl = 1
    /\ now = 0
    /\ cache = EmptyCache
    /\ collection = << >>
    /\ last = [op |-> "init"]
    /\ ops = 0
    /\ threads = [query |-> Idle, ingest |-> Idle]

\* RAGAgent.query from the input check to the formatted result (lines 143
\* to 216): the call ends here when the query is blocked, when the cache
\* answers or when a step raises
QueryRetrieve(request, done) ==
    LET outcome == query(cfg, cache, ttl, now, request.query, request.n_results,
                         request.include_code_examples, done)
        stores == Ran(outcome.stages, "cache_set")
    IN  /\ threads.query.pc = "idle"
        /\ ~IsBlank(request.query)
        /\ cache' = (IF InputCheck(request).is_allowed
                     THEN Probe(cache, request).cache ELSE cache)
        /\ threads' = [threads EXCEPT !.query =
                           [pc |-> IF stores THEN "retrieved" ELSE "done",
                            request |-> request,
                            result |-> outcome.result,
                            basis |-> collection,
                            stored |-> FALSE]]
        /\ last' = [op |-> "query_retrieve", request |-> request]
        /\ ops' = ops + 1
        /\ UNCHANGED <<cfg, ttl, now, collection>>

\* RAGAgent.query: cache_service.set(user_query, result, cache_params) and
\* the return (lines 219 to 222)
QueryStore ==
    /\ threads.query.pc = "retrieved"
    /\ cache' = set(cache, cfg.ENABLE_CACHE, now, threads.query.request.query,
                    threads.query.result,
                    CacheParams(threads.query.request.n_results,
                                threads.query.request.include_code_examples))
    /\ threads' = [threads EXCEPT !.query.pc = "done", !.query.stored = cfg.ENABLE_CACHE]
    /\ last' = [op |-> "query_store", request |-> threads.query.request]
    /\ ops' = ops + 1
    /\ UNCHANGED <<cfg, ttl, now, collection>>

\* ingest_documents up to the return of add_documents (lines 87 to 97); the
\* call ends here when add_documents raises
IngestAdd(documents, store_ok) ==
    LET added == add_documents(collection, documents, store_ok)
    IN  /\ threads.ingest.pc = "idle"
        /\ documents # << >>
        /\ Len(collection) + Len(documents) <= MaxDocs
        /\ collection' = added.collection
        /\ threads' = [threads EXCEPT !.ingest =
                           [pc |-> IF added.raised THEN "done" ELSE "added",
                            added |-> ~added.raised]]
        /\ last' = [op |-> "ingest_add", documents |-> documents]
        /\ ops' = ops + 1
        /\ UNCHANGED <<cfg, ttl, now, cache>>

\* ingest_documents: cache_service.clear() and the response (lines 100 to
\* 107)
IngestClear ==
    /\ threads.ingest.pc = "added"
    /\ cache' = clear(cache)
    /\ threads' = [threads EXCEPT !.ingest.pc = "done"]
    /\ last' = [op |-> "ingest_clear"]
    /\ ops' = ops + 1
    /\ UNCHANGED <<cfg, ttl, now, collection>>

NextIngest ==
    \/ \E request \in Requests :
           \E done \in Attempts(cfg, request, collection) : QueryRetrieve(request, done)
    \/ QueryStore
    \/ \E documents \in SeqsUpTo(Docs, 1), store_ok \in BOOLEAN :
           IngestAdd(documents, store_ok)
    \/ IngestClear

SpecIngest == InitIngest /\ [][NextIngest]_vars

\* C26: once the ingestion has added documents and cleared the cache, and
\* the query that ran beside it has returned, every entry the cache holds
\* was computed from a retrieval over the collection with the documents
\* added.
C26_NoStaleEntryAfterIngestion ==
    (threads.query.pc = "done" /\ threads.ingest.pc = "done" /\ threads.ingest.added)
    => \A k \in DOMAIN cache :
           threads.query.stored /\ threads.query.basis = collection

----------------------------------------------------------------------------
(* Properties of the cache statistics (specification SpecCache).           *)

\* C27: get_stats reports as total_entries the number of entries stored, as
\* expired_entries the number of those whose age exceeds the TTL and as
\* active_entries the rest, and changes no entry; and whatever the call, an
\* expired entry leaves the storage only in a get of its own key or in a
\* clear.
C27_StatsCountWithoutEvicting ==
    [][/\ CacheStep("get_stats")
          => /\ last'.stats.total_entries = Cardinality(DOMAIN cache)
             /\ last'.stats.expired_entries
                    = Cardinality({k \in DOMAIN cache : now - cache[k].timestamp > ttl})
             /\ last'.stats.total_entries
                    = last'.stats.active_entries + last'.stats.expired_entries
             /\ last'.stats.active_entries >= 0
             /\ cache' = cache
       /\ \A k \in DOMAIN cache :
              (now - cache[k].timestamp > ttl /\ k \notin DOMAIN cache')
              => \/ CacheStep("clear")
                 \/ CacheStep("get") /\ _get_cache_key(last'.input.query, last'.input.params) = k]_vars

\* get_stats called on a cache that holds an expired entry, which it counts
\* as expired
C27_Witness ==
    /\ last.op = "get_stats"
    /\ last.stats.expired_entries >= 1
    /\ last.stats.total_entries = Cardinality(DOMAIN cache)
    /\ \E k \in DOMAIN cache : now - cache[k].timestamp > ttl

----------------------------------------------------------------------------
(* Properties of the ingest endpoint (specification Spec).                 *)

\* C28: a call of the ingest endpoint with no documents, or one in which
\* add_documents raises, leaves every cache entry as it was and is answered
\* with an error status, a client-side one when the list is empty; the cache
\* is cleared only in a call in which add_documents returned.
C28_FailedIngestKeepsCache ==
    [][(ops' = ops + 1 /\ last'.op = "ingest")
       => /\ (last'.documents = << >> \/ last'.error # None)
             => /\ cache' = cache
                /\ last'.status >= 400
                /\ last'.documents_added = 0
          /\ last'.documents = << >> => last'.status \in 400..499
          /\ cache' # cache => last'.status = 200 /\ last'.documents_added > 0]_vars

----------------------------------------------------------------------------
(* Properties of the routing result (specification SpecText).              *)

\* C29: route_query returns GENERIC exactly when it returns the confidence
\* 0.0 and exactly when it returns no matched keyword; when it returns
\* another query type the confidence is above 0 and each matched keyword is
\* a keyword of that query type, of no other one, and occurs in the
\* lower-cased text.
C29_GenericIffZeroIffNoKeywords ==
    last.op = "route_query"
    => LET KeywordsOf(query_type) ==
               {routing_patterns(query_type)[i] : i \in 1..Len(routing_patterns(query_type))}
       IN
       /\ last.returned.query_type = GENERIC <=> last.returned.confidence.num = 0
       /\ last.returned.confidence.num = 0 <=> last.returned.matched_keywords = << >>
       /\ last.returned.query_type # GENERIC
          => /\ last.returned.query_type \in RoutedTypes
             /\ last.returned.confidence.num > 0
             /\ last.returned.confidence.den > 0
             /\ \A i \in 1..Len(last.returned.matched_keywords) :
                    /\ last.returned.matched_keywords[i]
                           \in KeywordsOf(last.returned.query_type)
                    /\ \A other \in RoutedTypes \ {last.returned.query_type} :
                           last.returned.matched_keywords[i] \notin KeywordsOf(other)
                    /\ Contains(last.returned.matched_keywords[i], lower(last.text))

\* A text that holds keywords of two query types, routed to one of them
\* with the keywords of that one only
C29_Witness ==
    /\ last.op = "route_query"
    /\ last.returned.query_type \in RoutedTypes
    /\ last.returned.matched_keywords # << >>
    /\ \E other \in RoutedTypes \ {last.returned.query_type} :
           RawScore(other, last.text) > 0

----------------------------------------------------------------------------
(* NVIDIADocScraper.fetch_page (services/scraper.py; specification         *)
(* SpecFetch): one call, one step for each pass through the loop.          *)
(* threads holds the call: the argument retries, the loop variable         *)
(* attempt, the outcomes of the attempts made, the time.sleep calls made   *)
(* (their durations) and the value returned.                               *)

InitFetch ==
    /\ cfg = Config(TRUE, TRUE, "none")
    /\ ttl = 1
    /\ now = 0
    /\ cache = EmptyCache
    /\ collection = << >>
    /\ last = [op |-> "init"]
    /\ ops = 0
    /\ threads \in {[pc |-> "running", retries |-> retries, attempt |-> 0,
                      outcomes |-> << >>, sleeps |-> << >>, returned |-> Absent] :
                         retries \in 0..MaxRetries}

\* A variant of the loop body that sleeps after the last attempt too.
FetchAttempt_always_sleeping(response) ==
    /\ threads.pc = "running"
    /\ threads.attempt < threads.retries
    /\ threads' =
           LET tried == [threads EXCEPT !.outcomes = Append(@, response.kind)]
               is_last == ~(threads.attempt < threads.retries - 1)
               again == [tried EXCEPT !.attempt = @ + 1,
                                      !.sleeps = IF FALSE THEN @
                                                 ELSE Append(@, 2 ^ threads.attempt)]
           IN  CASE response.kind = "ok" ->
                       [tried EXCEPT !.pc = "returned", !.returned = Some(response.text)]
                 [] response.kind = "timeout" -> again
                 [] response.kind = "request_exception" ->
                       IF is_last THEN [tried EXCEPT !.pc = "returned"] ELSE again
                 [] OTHER -> [tried EXCEPT !.pc = "returned"]
    /\ last' = [op |-> "fetch_attempt", response |-> response]
    /\ ops' = ops + 1
    /\ UNCHANGED <<cfg, ttl, now, cache, collection>>

\* One pass through the loop of fetch_page: the attempt, and the except
\* clause its outcome selects.  response is the outcome of requests.get and
\* raise_for_status: a response, requests.exceptions.Timeout, another
\* RequestException, or any other exception.
FetchAttempt(response) ==
    /\ threads.pc = "running"
    /\ threads.attempt < threads.retries
    /\ threads' =
           LET tried == [threads EXCEPT !.outcomes = Append(@, response.kind)]
               is_last == ~(threads.attempt < threads.retries - 1)
               again == [tried EXCEPT !.attempt = @ + 1,
                                      !.sleeps = IF is_last THEN @
                                                 ELSE Append(@, 2 ^ threads.attempt)]
           IN  CASE response.kind = "ok" ->
                       [tried EXCEPT !.pc = "returned", !.returned = Some(response.text)]
                 [] response.kind = "timeout" -> again
                 [] response.kind = "request_exception" ->
                       IF is_last THEN [tried EXCEPT !.pc = "returned"] ELSE again
                 [] OTHER -> [tried EXCEPT !.pc = "returned"]
    /\ last' = [op |-> "fetch_attempt", response |-> response]
    /\ ops' = ops + 1
    /\ UNCHANGED <<cfg, ttl, now, cache, collection>>

\* The loop of fetch_page is exhausted: return None
FetchExhausted ==
    /\ threads.pc = "running"
    /\ ~(threads.attempt < threads.retries)
    /\ threads' = [threads EXCEPT !.pc = "returned"]
    /\ last' = [op |-> "fetch_exhausted"]
    /\ ops' = ops + 1
    /\ UNCHANGED <<cfg, ttl, now, cache, collection>>

NextFetch ==
    \/ \E response \in {[kind |-> "ok", text |-> <<"<", "p", ">">>],
                         [kind |-> "ok", text |-> << >>],
                         [kind |-> "timeout"], [kind |-> "request_exception"],
                         [kind |-> "exception"]} :
           FetchAttempt(response)
    \/ FetchExhausted

\* The call keeps running until it returns
SpecFetch == InitFetch /\ [][NextFetch]_vars /\ WF_vars(NextFetch)

\* C30: fetch_page returns, after at most `retries` attempts; no attempt
\* follows a successful one or one that raised an unexpected exception; it
\* sleeps 2^attempt seconds after a failed attempt that is not the last
\* one, and at no other time; it returns the text of the successful
\* attempt, and None when no attempt succeeded.
C30_FetchPageTerminates ==
    /\ [](/\ Len(threads.outcomes) <= threads.retries
          /\ \A i \in 1..(Len(threads.outcomes) - 1) :
                 threads.outcomes[i] \in {"timeout", "request_exception"}
          /\ \A i \in 1..Len(threads.sleeps) :
                 /\ threads.sleeps[i] = 2 ^ (i - 1)
                 /\ i < threads.retries
                 /\ i <= Len(threads.outcomes)
                 /\ threads.outcomes[i] \in {"timeout", "request_exception"}
          /\ threads.pc = "returned"
             => /\ Len(threads.sleeps)
                       = (IF threads.outcomes = << >> THEN 0 ELSE Len(threads.outcomes) - 1)
                /\ threads.returned.some
                       <=> (threads.outcomes # << >>
                            /\ threads.outcomes[Len(threads.outcomes)] = "ok")
                /\ threads.returned.some
                       => threads.returned.value = last.response.text)
    /\ <>(threads.pc = "returned")

\* A call that returned None after `retries` attempts that timed out, having
\* slept between them and not after the last
C30_Witness ==
    /\ threads.pc = "returned"
    /\ threads.retries >= 2
    /\ ~threads.returned.some
    /\ Len(threads.outcomes) = threads.retries
    /\ \A i \in 1..Len(threads.outcomes) : threads.outcomes[i] = "timeout"
    /\ Len(threads.sleeps) = threads.retries - 1

====
